---- MODULE Spec2Model ----
(***************************************************************************)
(* PluginLoader (src/src/index.js), its targeting engine                   *)
(* (src/src/targeting.js) and its ExperimentManager                        *)
(* (src/src/experiments.js) as a state machine.                            *)
(*                                                                         *)
(* JavaScript strings that the code lower-cases or searches are sequences  *)
(* of one-character strings; the others (names, hosts, statuses) are TLA+  *)
(* strings.  An object reference is an index into the heap of descriptors. *)
(* A promise returned by load() is a handle 1..MaxLoads.  Time stamps of   *)
(* the performance record are left out: only performance.status is kept.   *)
(***************************************************************************)
EXTENDS Integers, Sequences, FiniteSets, TLC

\* ------------------------------------------------------------------ bounds
\* the number of load() calls of one run
MaxLoads == 2
\* the number of descriptor objects load() and register() may create
MaxObjs == 2
\* the length of a rule list or domain list handed to a targeting function
MaxRules == 2
\* the number of experiments in the registry of an ExperimentManager
MaxExperiments == 2
\* the number of ids the applied and eligible lists may hold after an apply
MaxTracked == 3
\* the number of topics the page publishes on window.PubSub
MaxPublished == 2

Names == {"a"}
Host == "example.com"
OtherHost == "other.com"

\* ----------------------------------------------------------------- strings
Sport == <<"s", "p">>
SportUpper == <<"S", "p">>
News == <<"n", "e">>
AllStr == <<"a", "l", "l">>
Undefined == <<"#undefined">>

\* String(value): undefined prints as the word "undefined"
ToStr(value) ==
  IF value = Undefined
    THEN <<"u", "n", "d", "e", "f", "i", "n", "e", "d">>
    ELSE value

LowerCh(c) ==
  CASE c = "S" -> "s"
    [] c = "P" -> "p"
    [] c = "N" -> "n"
    [] c = "E" -> "e"
    [] c = "A" -> "a"
    [] c = "L" -> "l"
    [] OTHER -> c

\* String.prototype.toLowerCase
ToLowerCase(s) == [i \in 1..Len(s) |-> LowerCh(s[i])]

\* String.prototype.startsWith
StartsWith(s, prefix) ==
  /\ Len(prefix) <= Len(s)
  /\ \A i \in 1..Len(prefix) : s[i] = prefix[i]

\* String.prototype.includes
StrIncludes(s, part) ==
  \E k \in 0..(Len(s) - Len(part)) :
    \A i \in 1..Len(part) : s[k + i] = part[i]

\* Array.prototype.includes
ArrIncludes(arr, x) == \E i \in 1..Len(arr) : arr[i] = x

\* --------------------------------------------------------------- targeting
\* the comparison shared by matchesRule and isExcluded (the switch)
RuleSwitch(normalizedValue, rules, matchType) ==
  CASE matchType = "startsWith" ->
         \E i \in 1..Len(rules) :
           StartsWith(normalizedValue, ToLowerCase(ToStr(rules[i])))
    [] matchType = "includes" ->
         \E i \in 1..Len(rules) :
           StrIncludes(normalizedValue, ToLowerCase(ToStr(rules[i])))
    [] OTHER ->
         \E i \in 1..Len(rules) :
           normalizedValue = ToLowerCase(ToStr(rules[i]))

\* matchesRule that compares the value as it is written
matchesRule_CaseKept(value, rules, matchType) ==
  IF Len(rules) = 0 THEN TRUE
  ELSE IF ArrIncludes(rules, AllStr) THEN TRUE
  ELSE RuleSwitch(ToStr(value), rules, matchType)

matchesRule(value, rules, matchType) ==
  IF Len(rules) = 0 THEN TRUE
  ELSE IF ArrIncludes(rules, AllStr) THEN TRUE
  ELSE RuleSwitch(ToLowerCase(ToStr(value)), rules, matchType)

isExcluded(value, rules, matchType) ==
  IF Len(rules) = 0 THEN FALSE
  ELSE RuleSwitch(ToLowerCase(ToStr(value)), rules, matchType)

\* A context is the object getContext() builds: a sequence of entries
\* [k |-> dimension, v |-> value] in key order.
CtxEntry(k, v) == [k |-> k, v |-> v]

RECURSIVE Join(_)
Join(s) == IF s = <<>> THEN "" ELSE Head(s) \o Join(Tail(s))

\* dimensionConfig[dimension].matchType || 'exact'
MatchTypeOf(dimensionConfig, dimension) ==
  IF dimension \in DOMAIN dimensionConfig THEN dimensionConfig[dimension] ELSE "exact"

\* A rule set (include or exclude): special is "absent", "true", "false" or
\* "throws" (what the predicate does when called); rules maps a dimension to
\* its rule list.
RuleDims == {"section", "geo"}
NoRules == [special |-> "absent", rules |-> [d \in RuleDims |-> <<>>]]

\* include[dimension] && include[dimension].length > 0 : the list, <<>> if none
RulesFor(ruleset, dimension) ==
  IF dimension \in DOMAIN ruleset.rules THEN ruleset.rules[dimension] ELSE <<>>

\* normalizeTargetingConfig: special defaults to () => false
normalizeTargetingConfig(ruleset) ==
  [ruleset EXCEPT !.special = IF @ = "absent" THEN "false" ELSE @]

RECURSIVE evalDimensions(_, _, _, _, _)
evalDimensions(include, exclude, context, dimensionConfig, i) ==
  IF i > Len(context) THEN [matched |-> TRUE, reason |-> "All targeting rules passed"]
  ELSE
    LET dimension == context[i].k
        currentValue == context[i].v
        matchType == MatchTypeOf(dimensionConfig, dimension)
    IN IF /\ Len(RulesFor(exclude, dimension)) > 0
          /\ isExcluded(currentValue, RulesFor(exclude, dimension), matchType)
         THEN [matched |-> FALSE,
               reason |-> "Excluded by " \o dimension \o ": " \o Join(ToStr(currentValue))]
       ELSE IF /\ Len(RulesFor(include, dimension)) > 0
               /\ ~matchesRule(currentValue, RulesFor(include, dimension), matchType)
         THEN [matched |-> FALSE,
               reason |-> "Not included by " \o dimension \o ": " \o Join(ToStr(currentValue))]
       ELSE evalDimensions(include, exclude, context, dimensionConfig, i + 1)

\* evaluateTargeting that asks include.special before exclude.special
evaluateTargeting_IncludeFirst(include, exclude, context, dimensionConfig) ==
  IF include.special = "true"
    THEN [matched |-> TRUE, reason |-> "Included by special function"]
  ELSE IF exclude.special = "true"
    THEN [matched |-> FALSE, reason |-> "Excluded by special function"]
  ELSE evalDimensions(include, exclude, context, dimensionConfig, 1)

\* evaluateTargeting that walks the dimensions of the context from the last
\* key to the first
evaluateTargeting_LastKeyFirst(include, exclude, context, dimensionConfig) ==
  IF exclude.special = "true"
    THEN [matched |-> FALSE, reason |-> "Excluded by special function"]
  ELSE IF include.special = "true"
    THEN [matched |-> TRUE, reason |-> "Included by special function"]
  ELSE evalDimensions(include, exclude,
                      [i \in 1..Len(context) |-> context[Len(context) + 1 - i]],
                      dimensionConfig, 1)

\* evaluateTargeting for which a special predicate that throws has answered
evaluateTargeting_ThrowDecides(include, exclude, context, dimensionConfig) ==
  IF exclude.special \in {"true", "throws"}
    THEN [matched |-> FALSE, reason |-> "Excluded by special function"]
  ELSE IF include.special \in {"true", "throws"}
    THEN [matched |-> TRUE, reason |-> "Included by special function"]
  ELSE evalDimensions(include, exclude, context, dimensionConfig, 1)

\* evaluateTargeting that also asks for the dimensions its include rules name
\* when the context has no such key
evaluateTargeting_RuleKeys(include, exclude, context, dimensionConfig) ==
  IF exclude.special = "true"
    THEN [matched |-> FALSE, reason |-> "Excluded by special function"]
  ELSE IF include.special = "true"
    THEN [matched |-> TRUE, reason |-> "Included by special function"]
  ELSE IF \E d \in DOMAIN include.rules :
            /\ Len(include.rules[d]) > 0
            /\ \A i \in 1..Len(context) : context[i].k # d
    THEN [matched |-> FALSE, reason |-> "Not included"]
  ELSE evalDimensions(include, exclude, context, dimensionConfig, 1)

\* a special predicate that throws is caught and counts as not true
evaluateTargeting(include, exclude, context, dimensionConfig) ==
  IF exclude.special = "true"
    THEN [matched |-> FALSE, reason |-> "Excluded by special function"]
  ELSE IF include.special = "true"
    THEN [matched |-> TRUE, reason |-> "Included by special function"]
  ELSE evalDimensions(include, exclude, context, dimensionConfig, 1)

\* matchesDomain(domains, currentDomain): an absent (or empty) currentDomain
\* is window.location.host
matchesDomainAt(domains, currentDomain) ==
  LET host == IF currentDomain = "" THEN Host ELSE currentDomain
  IN IF Len(domains) = 0 THEN TRUE
     ELSE IF ArrIncludes(domains, "all") THEN TRUE
     ELSE ArrIncludes(domains, host)

\* matchesDomain(plugin.domains), as the loader calls it
matchesDomain(domains) == matchesDomainAt(domains, "")

\* ------------------------------------------------------------------- state
VARIABLES
  plugins,       \* this.plugins: name -> descriptor object (0: none)
  heap,          \* the descriptor objects created so far
  metrics,       \* this.metrics: name -> copy of performance ("none": no entry)
  consentQueue,  \* this.consentQueue: entries {plugin, resolve}
  handles,       \* the promises load() has returned
  timers,        \* armed timeout alarms, named by the load that armed them
  scripts,       \* attached scripts that have not reported yet, by load
  consent,       \* the Consent Oracle's current answer
  urlEnable,     \* pluginEnable of the page URL
  urlDisable,    \* pluginDisable of the page URL
  experiments,   \* this.experiments: the ExperimentManager, if set
  pluginConfig,  \* the page's plugin definitions (config/plugins.js), by name
  trace,         \* what the last operation of the loader did, in order
  call,          \* the last direct call of a targeting function, with its result
  pubsub,        \* window.PubSub: its subscriptions and the topics the page published
  initDone       \* the entry point's init() has run

vars == <<plugins, heap, metrics, consentQueue, handles, timers, scripts, consent,
          urlEnable, urlDisable, experiments, pluginConfig, trace, call, pubsub, initDone>>

Hooks == {"preload", "onload", "onerror", "ontimeout", "onignore"}
Terminal == {"loaded", "error", "timeout", "ignore", "inactive"}
Handles == 1..MaxLoads

\* one entry of the trace: kind, plugin name, value, load, and the data
\* passed along (the reason of an ignore)
Ed(k, n, v, h, d) == [k |-> k, n |-> n, v |-> v, h |-> h, d |-> d]
E(k, n, v, h) == Ed(k, n, v, h, "")

\* The state the operations work on, with exc: an exception is propagating.
State ==
  [plugins |-> plugins, heap |-> heap, metrics |-> metrics,
   consentQueue |-> consentQueue, handles |-> handles, timers |-> timers,
   scripts |-> scripts, consent |-> consent, urlEnable |-> urlEnable,
   urlDisable |-> urlDisable, experiments |-> experiments,
   pubsub |-> pubsub, initDone |-> initDone,
   trace |-> <<>>, exc |-> FALSE]

Install(s) ==
  /\ plugins' = s.plugins
  /\ heap' = s.heap
  /\ metrics' = s.metrics
  /\ consentQueue' = s.consentQueue
  /\ handles' = s.handles
  /\ timers' = s.timers
  /\ scripts' = s.scripts
  /\ experiments' = s.experiments
  /\ trace' = s.trace
  /\ pubsub' = s.pubsub
  /\ initDone' = s.initDone
  /\ UNCHANGED <<consent, urlEnable, urlDisable, pluginConfig, call>>

Emit(s, e) == [s EXCEPT !.trace = Append(@, e)]

NoHandle == [state |-> "unused", status |-> "", reason |-> "", obj |-> 0, queued |-> FALSE]

\* new PubSub(): no subscription, nothing published.  publishedTopics keeps
\* the topics the page publishes; the topics the loader publishes are the
\* event entries of trace.
PubSub_new == [topics |-> <<>>, publishedTopics |-> <<>>]

\* no targeting function has been called directly
NoCall ==
  [fn |-> "", value |-> <<>>, rules |-> <<>>, matchType |-> "", domains |-> <<>>,
   host |-> "", include |-> NoRules, exclude |-> NoRules, context |-> <<>>,
   matched |-> FALSE, reason |-> ""]

\* ------------------------------------------------------ ExperimentManager
\* this.experiments = null until setExperiments
NoManager ==
  [present |-> FALSE, active |-> FALSE, testgroup |-> 0,
   registry |-> <<>>, applied |-> <<>>, eligible |-> <<>>]

\* the constructor, wired as the entry point wires it (getContext and
\* dimensionConfig are the loader's)
NewManager(active, testgroup) ==
  [present |-> TRUE, active |-> active, testgroup |-> testgroup,
   registry |-> <<>>, applied |-> <<>>, eligible |-> <<>>]

\* new ExperimentManager(config): config.testgroup ?? Math.floor(Math.random() * 100),
\* with random the number drawn
ExperimentManager_new(config, random) ==
  NewManager(config.active, IF config.given THEN config.testgroup ELSE random)

\* the index of id in the registry, 0 if it is not registered
RegistryIndex(registry, id) ==
  IF \E i \in 1..Len(registry) : registry[i].id = id
    THEN CHOOSE i \in 1..Len(registry) : registry[i].id = id
    ELSE 0

\* register that stores an experiment whether or not it has an id
ExperimentManager_register_Unchecked(mgr, experiment) ==
  LET i == RegistryIndex(mgr.registry, experiment.id)
  IN IF i = 0
       THEN [mgr EXCEPT !.registry = Append(@, experiment)]
       ELSE [mgr EXCEPT !.registry[i] = experiment]

ExperimentManager_register(mgr, experiment) ==
  IF experiment.id = "" THEN mgr
  ELSE LET i == RegistryIndex(mgr.registry, experiment.id)
       IN IF i = 0
            THEN [mgr EXCEPT !.registry = Append(@, experiment)]
            ELSE [mgr EXCEPT !.registry[i] = experiment]

\* delete this.registry[id]
ExperimentManager_unregister(mgr, id) ==
  [mgr EXCEPT !.registry = SelectSeq(@, LAMBDA e : e.id # id)]

ExperimentManager_getStatus(mgr) ==
  [testgroup |-> mgr.testgroup, applied |-> mgr.applied, eligible |-> mgr.eligible]

\* getTargetingIds that lists the eligible ids before the applied ones
ExperimentManager_getTargetingIds_EligibleFirst(mgr) ==
  [i \in 1..Len(mgr.eligible) |-> mgr.eligible[i] \o "_e"]
    \o [i \in 1..Len(mgr.applied) |-> mgr.applied[i] \o "_a"]

ExperimentManager_getTargetingIds(mgr) ==
  [i \in 1..Len(mgr.applied) |-> mgr.applied[i] \o "_a"]
    \o [i \in 1..Len(mgr.eligible) |-> mgr.eligible[i] \o "_e"]

\* reset that also draws a new testgroup
ExperimentManager_reset_Redraws(mgr) ==
  [mgr EXCEPT !.applied = <<>>, !.eligible = <<>>, !.testgroup = (@ + 50) % 100]

ExperimentManager_reset(mgr) == [mgr EXCEPT !.applied = <<>>, !.eligible = <<>>]

ExperimentManager_clear(mgr) == ExperimentManager_reset([mgr EXCEPT !.registry = <<>>])

\* isInExperiment with the upper end of the range left out
isInExperiment_Exclusive(mgr, id) ==
  IF ~mgr.active THEN FALSE
  ELSE LET i == RegistryIndex(mgr.registry, id)
       IN IF i = 0 THEN FALSE
          ELSE IF ~mgr.registry[i].active THEN FALSE
          ELSE /\ mgr.testgroup >= mgr.registry[i].testRange[1]
               /\ mgr.testgroup < mgr.registry[i].testRange[2]

isInExperiment(mgr, id) ==
  IF ~mgr.active THEN FALSE
  ELSE LET i == RegistryIndex(mgr.registry, id)
       IN IF i = 0 THEN FALSE
          ELSE IF ~mgr.registry[i].active THEN FALSE
          ELSE /\ mgr.testgroup >= mgr.registry[i].testRange[1]
               /\ mgr.testgroup <= mgr.registry[i].testRange[2]

\* targetingMatches that does not look at the experiment's targeting
targetingMatches_Always(exp, context, dimensionConfig) == TRUE

\* exp.include and exp.exclude are objects after register, so the early
\* return of targetingMatches never happens
targetingMatches(exp, context, dimensionConfig) ==
  evaluateTargeting(normalizeTargetingConfig(exp.include),
                    normalizeTargetingConfig(exp.exclude),
                    context, dimensionConfig).matched

\* the apply functions that throw: at once, or after they changed the url
ApplyThrows == {"throw", "setUrlThrow"}

\* what an experiment's apply function does to the descriptor
ApplyEffect(desc, kind) ==
  CASE kind \in {"setUrl", "setUrlThrow"} -> [desc EXCEPT !.url = "u2"]
    [] kind = "deactivate" -> [desc EXCEPT !.active = FALSE]
    [] kind = "restrict" -> [desc EXCEPT !.include.rules["section"] = <<Sport>>]
    [] kind = "retarget" -> [desc EXCEPT !.include.rules["section"] = <<News>>]
    [] OTHER -> desc

\* isMatch that lets a global experiment match every plugin name
isMatch_GlobalToo(exp, pluginName) == exp.plugin = pluginName \/ exp.plugin = ""

\* pluginName ? exp.plugin === pluginName : !exp.plugin
isMatch(exp, pluginName) ==
  IF pluginName # "" THEN exp.plugin = pluginName ELSE exp.plugin = ""

RECURSIVE applyFrom(_, _, _, _, _, _)
applyFrom(s, pluginName, p, context, dimensionConfig, i) ==
  IF i > Len(s.experiments.registry) THEN s
  ELSE
    LET exp == s.experiments.registry[i]
        applied == IF exp.apply \in ApplyThrows
                     THEN Emit([s EXCEPT !.heap[p] = ApplyEffect(@, exp.apply)],
                               Ed("apply", pluginName, exp.id, 0, "threw"))
                     ELSE Emit([s EXCEPT !.heap[p] = ApplyEffect(@, exp.apply),
                                         !.experiments.applied = Append(@, exp.id)],
                               E("apply", pluginName, exp.id, 0))
        eligible == Emit([s EXCEPT !.experiments.eligible = Append(@, exp.id)],
                         E("eligible", pluginName, exp.id, 0))
        next == IF exp.active /\ isMatch(exp, pluginName)
                  THEN IF targetingMatches(exp, context, dimensionConfig)
                         THEN IF isInExperiment(s.experiments, exp.id)
                                THEN applied
                                ELSE eligible
                         ELSE s
                  ELSE s
    IN applyFrom(next, pluginName, p, context, dimensionConfig, i + 1)

\* apply that tracks the experiments it applied as eligible too
ExperimentManager_apply_TracksBoth(s, pluginName, p, context, dimensionConfig) ==
  IF ~s.experiments.active THEN s
  ELSE LET r == applyFrom(s, pluginName, p, context, dimensionConfig, 1)
       IN [r EXCEPT !.experiments.eligible =
                      @ \o SubSeq(r.experiments.applied, Len(s.experiments.applied) + 1,
                                  Len(r.experiments.applied))]

ExperimentManager_apply(s, pluginName, p, context, dimensionConfig) ==
  IF ~s.experiments.active THEN s
  ELSE applyFrom(s, pluginName, p, context, dimensionConfig, 1)

\* ---------------------------------------------------------- PluginLoader
publishEventData(s, name, event, data) == Emit(s, Ed("event", name, event, 0, data))

publishEvent(s, name, event) == publishEventData(s, name, event, "")

updateMetrics(s, p) ==
  Emit([s EXCEPT !.metrics[s.heap[p].name] = s.heap[p].perfStatus],
       E("metrics", s.heap[p].name, s.heap[p].perfStatus, 0))

\* plugin.status = x; plugin.performance.status = x
SetStatus(s, p, x, h) ==
  Emit([s EXCEPT !.heap[p].status = x, !.heap[p].perfStatus = x],
       E("status", s.heap[p].name, x, h))

\* the promise's resolve function: only the first call settles it
resolve(s, h, status, reason) ==
  Emit(IF s.handles[h].state = "pending"
         THEN [s EXCEPT !.handles[h].state = "resolved",
                        !.handles[h].status = status,
                        !.handles[h].reason = reason]
         ELSE s,
       E("resolve", s.heap[s.handles[h].obj].name, status, h))

\* a lifecycle hook of the descriptor is called; it throws when the
\* descriptor's hooks are functions that can throw and it is one of thr
callHook(s, p, hook, h, arg, thr) ==
  LET s1 == Emit(s, Ed("hook", s.heap[p].name, hook, h, arg))
  IN IF hook \in thr /\ s.heap[p].hooks = "throwing"
       THEN [Emit(s1, E("throw", s.heap[p].name, hook, h)) EXCEPT !.exc = TRUE]
       ELSE s1

getUrlOverrides(s) == [enable |-> s.urlEnable, disable |-> s.urlDisable]

\* checkUrlOverride without its "disable all except enabled" branch
checkUrlOverride_NoDisableAll(s, name) ==
  LET o == getUrlOverrides(s)
  IN IF name \in o.enable THEN [override |-> TRUE, enabled |-> TRUE]
     ELSE IF name \in o.disable THEN [override |-> TRUE, enabled |-> FALSE]
     ELSE [override |-> FALSE, enabled |-> TRUE]

checkUrlOverride(s, name) ==
  LET o == getUrlOverrides(s)
  IN IF "all" \in o.disable
       THEN IF name \in o.enable
              THEN [override |-> TRUE, enabled |-> TRUE]
              ELSE [override |-> TRUE, enabled |-> FALSE]
     ELSE IF name \in o.enable THEN [override |-> TRUE, enabled |-> TRUE]
     ELSE IF name \in o.disable THEN [override |-> TRUE, enabled |-> FALSE]
     ELSE [override |-> FALSE, enabled |-> TRUE]

\* whether checkConsent asks the oracle at all
ConsultsOracle(requiredStates) ==
  ~(Len(requiredStates) = 0 \/ ArrIncludes(requiredStates, "all"))

\* checkConsent that never asks the oracle
checkConsent_OracleIgnored(s, requiredStates) == TRUE

checkConsent(s, requiredStates) ==
  IF Len(requiredStates) = 0 \/ ArrIncludes(requiredStates, "all")
    THEN TRUE
    ELSE s.consent

\* checkConsent with the call of the oracle recorded
checkConsentTraced(s, p) ==
  IF ConsultsOracle(s.heap[p].consentState)
    THEN Emit(s, E("consent", s.heap[p].name,
                   IF s.consent THEN "allow" ELSE "deny", 0))
    ELSE s

normalizePluginConfig(config) ==
  [name |-> config.name,
   url |-> config.url,
   active |-> config.active,
   domains |-> config.domains,
   consentState |-> config.consentState,
   include |-> config.include,
   exclude |-> config.exclude,
   hooks |-> config.hooks,
   perfStatus |-> "init",
   tag |-> 0,
   timeoutProc |-> 0,
   status |-> IF config.status = "none" THEN "init" ELSE config.status]

\* handleInactive that leaves the metrics store alone
handleInactive_NoMetrics(s, p, h) ==
  LET name == s.heap[p].name
      s1 == SetStatus(s, p, "inactive", h)
      s3 == publishEvent(s1, name, "inactive")
      s4 == publishEvent(s3, name, "complete")
  IN resolve(s4, h, "inactive", "")

handleInactive(s, p, h) ==
  LET name == s.heap[p].name
      s1 == SetStatus(s, p, "inactive", h)
      s2 == updateMetrics(s1, p)
      s3 == publishEvent(s2, name, "inactive")
      s4 == publishEvent(s3, name, "complete")
  IN resolve(s4, h, "inactive", "")

\* handleIgnore that leaves the active flag as it is
handleIgnore_StaysActive(s, p, reason, h, thr) ==
  LET name == s.heap[p].name
      s1 == SetStatus(s, p, "ignore", h)
      s2 == updateMetrics(s1, p)
      s3 == callHook(s2, p, "onignore", h, reason, thr)
      s4 == publishEventData(s3, name, "ignore", reason)
      s5 == publishEvent(s4, name, "complete")
  IN IF s3.exc THEN s3 ELSE resolve(s5, h, "ignore", reason)

handleIgnore(s, p, reason, h, thr) ==
  LET name == s.heap[p].name
      s1 == SetStatus([s EXCEPT !.heap[p].active = FALSE], p, "ignore", h)
      s2 == updateMetrics(s1, p)
      s3 == callHook(s2, p, "onignore", h, reason, thr)
      s4 == publishEventData(s3, name, "ignore", reason)
      s5 == publishEvent(s4, name, "complete")
  IN IF s3.exc THEN s3 ELSE resolve(s5, h, "ignore", reason)

executeLoad(s, p, h, thr) ==
  LET name == s.heap[p].name
      \* plugin.timeoutProc = setTimeout(...)
      s1 == Emit([s EXCEPT !.timers = @ \cup {h}, !.heap[p].timeoutProc = h],
                 E("timer", name, "arm", h))
      s2 == callHook(s1, p, "preload", h, "", thr)
      \* plugin.tag = script, with its onload and onerror set
      s3 == [s2 EXCEPT !.heap[p].tag = h]
      s4 == SetStatus(s3, p, "requested", h)
      \* target.appendChild(script)
      s5 == Emit([s4 EXCEPT !.scripts = @ \cup {h}], E("attach", name, s.heap[p].url, h))
  IN IF s2.exc THEN s2
     ELSE IF s3.heap[p].url # "none" THEN s5
     ELSE handleIgnore(s3, p, "No URL provided", h, thr)

\* the generated dimensions and their match types (config/dimensions.json)
LoaderDimensionConfig == [d \in {"section"} |-> "startsWith"]

\* the timeout alarm of the load h
timeoutCallback(s, h, thr) ==
  LET p == s.handles[h].obj
      name == s.heap[p].name
      s0 == [s EXCEPT !.timers = @ \ {h}, !.trace = <<E("call", name, "timeout", h)>>]
      s1 == SetStatus(s0, p, "timeout", h)
      s2 == updateMetrics(s1, p)
      s3 == callHook(s2, p, "ontimeout", h, "", thr)
      s4 == publishEvent(s3, name, "timeout")
      s5 == publishEvent(s4, name, "complete")
  IN IF s0.heap[p].status # "requested" THEN s0
     ELSE IF s3.exc THEN s3
     ELSE resolve(s5, h, "timeout", "")

\* script.onload and script.onerror of the script the load h attached
scriptCallback(s, h, outcome, hook, event, thr) ==
  LET p == s.handles[h].obj
      name == s.heap[p].name
      s0 == [s EXCEPT !.scripts = @ \ {h}, !.trace = <<E("call", name, hook, h)>>]
      \* clearTimeout(plugin.timeoutProc)
      s1 == Emit([s0 EXCEPT !.timers = @ \ {s0.heap[p].timeoutProc}],
                 E("timer", name, "clear", s0.heap[p].timeoutProc))
      s2 == SetStatus(s1, p, outcome, h)
      s3 == updateMetrics(s2, p)
      s4 == callHook(s3, p, hook, h, "", thr)
      s5 == publishEvent(s4, name, event)
      s6 == publishEvent(s5, name, "complete")
  IN IF s0.heap[p].status # "requested" THEN s0
     ELSE IF s4.exc THEN s4
     ELSE resolve(s6, h, outcome, "")

scriptOnload(s, h, thr) == scriptCallback(s, h, "loaded", "onload", "load", thr)

scriptOnerror(s, h, thr) == scriptCallback(s, h, "error", "onerror", "error", thr)

\* the URL override step of load
applyUrlOverride(s, p) ==
  LET name == s.heap[p].name
      urlOverride == checkUrlOverride(s, name)
  IN IF urlOverride.override
       THEN IF urlOverride.enabled
              THEN publishEvent([s EXCEPT !.heap[p].include = NoRules,
                                          !.heap[p].exclude = NoRules,
                                          !.heap[p].domains = <<"all">>,
                                          !.heap[p].consentState = <<"all">>],
                                name, "override.enabled")
              ELSE publishEvent([s EXCEPT !.heap[p].active = FALSE],
                                name, "override.disabled")
       ELSE s

\* the value of the section dimension in what getContext() returned
ContextKey(context) == Join(context[1].v)

\* targeting of the descriptor p against the context
targetingOf(s, p, context) ==
  evaluateTargeting(normalizeTargetingConfig(s.heap[p].include),
                    normalizeTargetingConfig(s.heap[p].exclude),
                    context, LoaderDimensionConfig)

\* load that evaluates targeting before it applies the experiments
loadGates_TargetingFirst(s, p, h, context, thr) ==
  LET name == s.heap[p].name
      s1 == checkConsentTraced(s, p)
      queued == publishEvent([s1 EXCEPT !.consentQueue = Append(@, [plugin |-> p, resolve |-> h]),
                                        !.handles[h].queued = TRUE],
                             name, "consent.pending")
      result == targetingOf(s1, p, context)
      s2 == Emit(s1, Ed("targeting", name, result.reason, 0, ContextKey(context)))
      s3 == IF s2.experiments.present
              THEN ExperimentManager_apply(s2, name, p, context, LoaderDimensionConfig)
              ELSE s2
  IN IF s.heap[p].active # TRUE THEN handleInactive(s, p, h)
     ELSE IF ~checkConsent(s, s.heap[p].consentState) THEN queued
     ELSE IF ~matchesDomain(s1.heap[p].domains)
       THEN handleIgnore(s1, p, "Domain mismatch", h, thr)
     ELSE IF ~result.matched THEN handleIgnore(s3, p, result.reason, h, thr)
     ELSE executeLoad(s3, p, h, thr)

\* load from the activity check on
loadGates(s, p, h, context, thr) ==
  LET name == s.heap[p].name
      s1 == checkConsentTraced(s, p)
      queued == publishEvent([s1 EXCEPT !.consentQueue = Append(@, [plugin |-> p, resolve |-> h]),
                                        !.handles[h].queued = TRUE],
                             name, "consent.pending")
      s2 == IF s1.experiments.present
              THEN ExperimentManager_apply(s1, name, p, context, LoaderDimensionConfig)
              ELSE s1
      result == targetingOf(s2, p, context)
      s3 == Emit(s2, Ed("targeting", name, result.reason, 0, ContextKey(context)))
  IN IF s.heap[p].active # TRUE THEN handleInactive(s, p, h)
     ELSE IF ~checkConsent(s, s.heap[p].consentState) THEN queued
     ELSE IF ~matchesDomain(s1.heap[p].domains)
       THEN handleIgnore(s1, p, "Domain mismatch", h, thr)
     ELSE IF ~result.matched THEN handleIgnore(s3, p, result.reason, h, thr)
     ELSE executeLoad(s3, p, h, thr)

\* the promise of load h after its executor ran: an exception thrown inside
\* the executor rejects the promise if it is still pending
PromiseExecutor(s, h) ==
  IF s.exc
    THEN [s EXCEPT !.exc = FALSE,
                   !.handles[h].state = IF @ = "pending" THEN "rejected" ELSE @]
    ELSE s

NextHandle(s) == CHOOSE h \in Handles :
  /\ s.handles[h].state = "unused"
  /\ \A g \in Handles : g < h => s.handles[g].state # "unused"

load(s, config, context, thr) ==
  LET h == NextHandle(s)
      existing == s.plugins[config.name]
      p == IF existing # 0 THEN existing ELSE Len(s.heap) + 1
      s0 == [s EXCEPT !.heap = IF existing # 0 THEN @
                                ELSE Append(@, normalizePluginConfig(config)),
                      !.plugins[config.name] = p,
                      !.handles[h] = [NoHandle EXCEPT !.state = "pending", !.obj = p],
                      !.trace = <<E("call", config.name, "load", h)>>]
      s1 == applyUrlOverride(s0, p)
  IN PromiseExecutor(loadGates(s1, p, h, context, thr), h)

register(s, config) ==
  [s EXCEPT !.heap = Append(@, normalizePluginConfig(config)),
            !.plugins[config.name] = Len(s.heap) + 1,
            !.trace = <<E("call", config.name, "register", 0)>>]

\* one entry of the loop of processConsentQueue
processEntry(s, entry, context, thr) ==
  LET p == entry.plugin
      h == entry.resolve
      name == s.heap[p].name
      s1 == checkConsentTraced(s, p)
      result == targetingOf(s1, p, context)
      s2 == Emit(s1, Ed("targeting", name, result.reason, 0, ContextKey(context)))
  IN IF checkConsent(s, s.heap[p].consentState)
       THEN IF result.matched /\ matchesDomain(s2.heap[p].domains)
              THEN executeLoad(s2, p, h, thr)
              ELSE handleIgnore(s2, p,
                                IF result.reason # "" THEN result.reason
                                ELSE "Domain mismatch",
                                h, thr)
       ELSE [s1 EXCEPT !.consentQueue = Append(@, entry)]

RECURSIVE processLoop(_, _, _, _)
processLoop(s, queue, context, thr) ==
  IF queue = <<>> \/ s.exc THEN s
  ELSE processLoop(processEntry(s, Head(queue), context, thr), Tail(queue), context, thr)

\* processConsentQueue that does not empty the queue before its loop
processConsentQueue_QueueKept(s, context, thr) ==
  LET s0 == [s EXCEPT !.trace = <<E("call", "", "processConsentQueue", 0)>>]
  IN [processLoop(s0, s.consentQueue, context, thr) EXCEPT !.exc = FALSE]

\* an exception of a hook leaves processConsentQueue and reaches its caller
processConsentQueue(s, context, thr) ==
  LET s0 == [s EXCEPT !.consentQueue = <<>>,
                      !.trace = <<E("call", "", "processConsentQueue", 0)>>]
  IN [processLoop(s0, s.consentQueue, context, thr) EXCEPT !.exc = FALSE]

\* -------------------------------------------------- PubSub and entry point
\* CONFIG.readyTopic, and another topic of the page
ReadyTopic == "cmp.ready"
OtherTopic == "page.view"

\* Object.values(plugins) of config/plugins.js, in its order
PluginOrder == <<"a">>

RECURSIVE loadFrom(_, _, _, _)
loadFrom(s, i, context, thr) ==
  IF i > Len(PluginOrder) THEN s
  ELSE loadFrom(load(s, pluginConfig[PluginOrder[i]], context, thr), i + 1, context, thr)

\* loadPlugins of the entry point: load() for every configured plugin
loadPlugins(s, context, thr) == loadFrom(s, 1, context, thr)

\* func.call() of a subscription; the entry point's func calls loadPlugins
callFunc(s, func, context, thr) ==
  IF func = "loadPlugins" THEN loadPlugins(s, context, thr) ELSE s

hasPublished(s, topic) == ArrIncludes(s.pubsub.publishedTopics, topic)

subscribe(s, topic, func, runIfAlreadyPublished, context, thr) ==
  LET s1 == IF runIfAlreadyPublished /\ ArrIncludes(s.pubsub.publishedTopics, topic)
              THEN callFunc(s, func, context, thr)
              ELSE s
  IN [s1 EXCEPT !.pubsub.topics = Append(@, [topic |-> topic, func |-> func])]

\* the loop of publish over this.topics
RECURSIVE publishFrom(_, _, _, _, _)
publishFrom(s, topic, i, context, thr) ==
  IF i > Len(s.pubsub.topics) THEN s
  ELSE publishFrom(IF s.pubsub.topics[i].topic = topic
                     THEN callFunc(s, s.pubsub.topics[i].func, context, thr)
                     ELSE s,
                   topic, i + 1, context, thr)

publish(s, topic, context, thr) ==
  publishFrom([s EXCEPT !.pubsub.publishedTopics = Append(@, topic),
                        !.trace = <<E("call", topic, "publish", 0)>>],
              topic, 1, context, thr)

\* init of the entry point that only subscribes, without asking for what was
\* published before
init_SubscribeOnly(s, context, thr) ==
  subscribe([s EXCEPT !.initDone = TRUE, !.trace = <<E("call", "", "init", 0)>>],
            ReadyTopic, "loadPlugins", FALSE, context, thr)

\* init of the entry point, with CONFIG.readyTopic set
init(s, context, thr) ==
  LET s0 == [s EXCEPT !.initDone = TRUE, !.trace = <<E("call", "", "init", 0)>>]
  IN IF hasPublished(s0, ReadyTopic)
       THEN loadPlugins(s0, context, thr)
       ELSE subscribe(s0, ReadyTopic, "loadPlugins", TRUE, context, thr)

\* ------------------------------------------------------------- the inputs
SectionSport == [NoRules EXCEPT !.rules["section"] = <<Sport>>]

DomainOpts == {<<"all">>, <<OtherHost>>}
ConsentOpts == {<<"all">>, <<"analytics">>}
IncludeOpts == {SectionSport}
ExcludeOpts == {NoRules}

\* the plugin configurations handed to load and register
Configs ==
  [name : Names, url : {"u1", "none"}, active : BOOLEAN, domains : DomainOpts,
   consentState : ConsentOpts, include : IncludeOpts, exclude : ExcludeOpts,
   hooks : {"safe", "throwing"}, status : {"none"}]

\* what getContext() returns: one entry for each registered dimension
Contexts == {<<CtxEntry("section", Sport)>>, <<CtxEntry("section", News)>>}

\* an experiment as register stores it
Experiment(id, range, plugin, apply) ==
  [id |-> id, active |-> TRUE, testRange |-> range, plugin |-> plugin,
   include |-> NoRules, exclude |-> NoRules, apply |-> apply]

\* the experiment managers a page may set up before its first load
Managers ==
  {NoManager}
  \cup {ExperimentManager_register(NewManager(TRUE, g),
                                  Experiment("e1", <<0, 49>>, "a", k)) :
          g \in {10}, k \in {"deactivate"}}

\* pluginDisable of the page URL
DisableOpts == {{}, {"all"}} \cup {{n} : n \in Names}

\* -------------------------------------------------------------- the system
Init ==
  /\ plugins = [n \in Names |-> 0]
  /\ heap = <<>>
  /\ metrics = [n \in Names |-> "none"]
  /\ consentQueue = <<>>
  /\ handles = [h \in Handles |-> NoHandle]
  /\ timers = {}
  /\ scripts = {}
  /\ consent = FALSE
  /\ urlEnable \in SUBSET Names
  /\ urlDisable \in DisableOpts
  /\ experiments \in Managers
  /\ pluginConfig \in [Names -> Configs]
  /\ \A n \in Names : pluginConfig[n].name = n
  /\ trace = <<>>
  /\ call = NoCall
  /\ pubsub = PubSub_new
  /\ initDone = FALSE

\* the hooks that throw when an operation calls them
LoadThrows == {{}, {"preload"}, {"onignore"}}

Load ==
  \E name \in Names, context \in Contexts, thr \in LoadThrows :
    /\ \E h \in Handles : handles[h].state = "unused"
    /\ plugins[name] # 0 \/ Len(heap) < MaxObjs
    /\ Install(load(State, pluginConfig[name], context, thr))

Register ==
  \E name \in Names :
    /\ Len(heap) < MaxObjs
    /\ Install(register(State, pluginConfig[name]))

ProcessConsentQueue ==
  \E context \in Contexts, thr \in LoadThrows :
    /\ Len(consentQueue) <= MaxLoads
    /\ Install(processConsentQueue(State, context, thr))

TimeoutFires ==
  \E h \in timers, thr \in SUBSET {"ontimeout"} :
    Install(timeoutCallback(State, h, thr))

ScriptLoads ==
  \E h \in scripts, thr \in SUBSET {"onload"} :
    Install(scriptOnload(State, h, thr))

ScriptFails ==
  \E h \in scripts, thr \in SUBSET {"onerror"} :
    Install(scriptOnerror(State, h, thr))

\* the user gives or withdraws consent
ConsentChanges ==
  /\ consent' = ~consent
  /\ UNCHANGED <<plugins, heap, metrics, consentQueue, handles, timers, scripts,
                 urlEnable, urlDisable, experiments, pluginConfig, trace, call,
                 pubsub, initDone>>

Next ==
  \/ Load
  \/ Register
  \/ ProcessConsentQueue
  \/ TimeoutFires
  \/ ScriptLoads
  \/ ScriptFails
  \/ ConsentChanges

Spec == Init /\ [][Next]_vars

\* the pages whose lifecycle hooks never throw
InitSafe == Init /\ \A n \in Names : pluginConfig[n].hooks = "safe"

SpecSafe == InitSafe /\ [][Next]_vars

\* ------------------------------------ the ExperimentManager, called directly
ExpIds == {"e1", "e2"}

\* the experiments a page registers, as register stores them
ExperimentInputs ==
  {Experiment("e1", <<0, 24>>, "a", "setUrl"),
   [Experiment("e1", <<0, 49>>, "a", "deactivate") EXCEPT !.include = SectionSport],
   Experiment("e1", <<0, 24>>, "a", "setUrlThrow"),
   [Experiment("e1", <<0, 99>>, "a", "setUrl") EXCEPT !.active = FALSE],
   Experiment("e2", <<50, 99>>, "", "setUrl"),
   Experiment("e2", <<0, 49>>, "a", "throw"),
   Experiment("e2", <<50, 99>>, "b", "deactivate"),
   Experiment("", <<0, 99>>, "a", "setUrl")}

\* the configurations handed to the constructor, and the numbers it may draw
ManagerConfigs ==
  [active : BOOLEAN, given : BOOLEAN, testgroup : {0, 25, 150}]
RandomDraws == {60, 99}

BoolStr(b) == IF b THEN "true" ELSE "false"

\* the manager's state after the call fn(arg), which returned ret
Returned(mgr, fn, arg, ret) ==
  /\ experiments' = mgr
  /\ trace' = <<Ed("call", arg, fn, 0, ret)>>
  /\ UNCHANGED <<plugins, heap, metrics, consentQueue, handles, timers, scripts, consent,
                 urlEnable, urlDisable, pluginConfig, call, pubsub, initDone>>

ExpRegister ==
  \E experiment \in ExperimentInputs :
    /\ \/ Len(experiments.registry) < MaxExperiments
       \/ RegistryIndex(experiments.registry, experiment.id) # 0
       \/ experiment.id = ""
    /\ Returned(ExperimentManager_register(experiments, experiment), "register",
                experiment.id, BoolStr(experiment.id # ""))

ExpUnregister ==
  \E id \in ExpIds :
    /\ experiments.present
    /\ Returned(ExperimentManager_unregister(experiments, id), "unregister", id, "")

ExpIsInExperiment ==
  \E id \in ExpIds :
    /\ experiments.present
    /\ Returned(experiments, "isInExperiment", id, BoolStr(isInExperiment(experiments, id)))

ExpGetStatus ==
  /\ experiments.present
  /\ Returned(experiments, "getStatus", "", ToString(ExperimentManager_getStatus(experiments)))

ExpGetTargetingIds ==
  /\ experiments.present
  /\ Returned(experiments, "getTargetingIds", "",
              ToString(ExperimentManager_getTargetingIds(experiments)))

ExpReset ==
  /\ experiments.applied # <<>> \/ experiments.eligible # <<>>
  /\ Returned(ExperimentManager_reset(experiments), "reset", "", "")

ExpClear ==
  /\ experiments.registry # <<>>
  /\ Returned(ExperimentManager_clear(experiments), "clear", "", "")

\* apply(pluginName, pluginConfig) on the descriptor stored for a plugin;
\* pluginName "" is the call without a plugin name.  The call is recorded with
\* the descriptor object and the section of the context.
ExpApply ==
  \E pluginName \in Names \cup {""}, n \in Names, context \in Contexts :
    /\ plugins[n] # 0
    /\ Len(experiments.applied) + Len(experiments.eligible) + Len(experiments.registry)
         <= MaxTracked
    /\ Install(ExperimentManager_apply(
                 [State EXCEPT !.trace = <<Ed("call", pluginName, "apply", plugins[n],
                                             Join(context[1].v))>>],
                 pluginName, plugins[n], context, LoaderDimensionConfig))

NextExp ==
  \/ Register
  \/ ExpRegister
  \/ ExpUnregister
  \/ ExpIsInExperiment
  \/ ExpGetStatus
  \/ ExpGetTargetingIds
  \/ ExpReset
  \/ ExpClear
  \/ ExpApply

\* a page that constructs its ExperimentManager and connects it to the loader
InitExp ==
  /\ plugins = [n \in Names |-> 0]
  /\ heap = <<>>
  /\ metrics = [n \in Names |-> "none"]
  /\ consentQueue = <<>>
  /\ handles = [h \in Handles |-> NoHandle]
  /\ timers = {}
  /\ scripts = {}
  /\ consent = FALSE
  /\ urlEnable = {}
  /\ urlDisable = {}
  /\ experiments \in {ExperimentManager_new(c, r) : c \in ManagerConfigs, r \in RandomDraws}
  /\ pluginConfig = [n \in Names |->
       [name |-> n, url |-> "u1", active |-> TRUE, domains |-> <<"all">>,
        consentState |-> <<"all">>, include |-> SectionSport, exclude |-> NoRules,
        hooks |-> "safe", status |-> "none"]]
  /\ trace = <<>>
  /\ call = NoCall
  /\ pubsub = PubSub_new
  /\ initDone = FALSE

SpecExp == InitExp /\ [][NextExp]_vars

\* ---------------------- a page whose registry is fixed before the first apply
\* managers with two registrations made, for users in and out of the ranges
FixedManagers ==
  {ExperimentManager_register(ExperimentManager_register(NewManager(TRUE, g), e), f) :
     g \in {0, 25, 60}, e \in ExperimentInputs, f \in ExperimentInputs}

InitFixed ==
  /\ plugins = [n \in Names |-> 0]
  /\ heap = <<>>
  /\ metrics = [n \in Names |-> "none"]
  /\ consentQueue = <<>>
  /\ handles = [h \in Handles |-> NoHandle]
  /\ timers = {}
  /\ scripts = {}
  /\ consent = FALSE
  /\ urlEnable = {}
  /\ urlDisable = {}
  /\ experiments \in FixedManagers
  /\ pluginConfig = [n \in Names |->
       [name |-> n, url |-> "u1", active |-> TRUE, domains |-> <<"all">>,
        consentState |-> <<"all">>, include |-> SectionSport, exclude |-> NoRules,
        hooks |-> "safe", status |-> "none"]]
  /\ trace = <<>>
  /\ call = NoCall
  /\ pubsub = PubSub_new
  /\ initDone = FALSE

\* the operations that leave the registry and the testgroup as they are
NextFixed ==
  \/ Register
  \/ ExpIsInExperiment
  \/ ExpGetStatus
  \/ ExpGetTargetingIds
  \/ ExpApply

SpecFixed == InitFixed /\ [][NextFixed]_vars

\* ------------------------------- a page whose experiments' apply functions throw
\* an experiment whose apply function throws, registered before one that
\* deactivates the plugin
ThrowManagers ==
  {ExperimentManager_register(
     ExperimentManager_register(NewManager(TRUE, 10), Experiment("e1", <<0, 49>>, "a", k)),
     Experiment("e2", <<0, 49>>, "a", "deactivate")) : k \in ApplyThrows}

InitThrow ==
  /\ plugins = [n \in Names |-> 0]
  /\ heap = <<>>
  /\ metrics = [n \in Names |-> "none"]
  /\ consentQueue = <<>>
  /\ handles = [h \in Handles |-> NoHandle]
  /\ timers = {}
  /\ scripts = {}
  /\ consent = FALSE
  /\ urlEnable = {}
  /\ urlDisable = {}
  /\ experiments \in ThrowManagers
  /\ pluginConfig \in [Names ->
       {c \in Configs : c.active /\ c.url = "u1" /\ c.hooks = "safe" /\ c.domains = <<"all">>}]
  /\ \A n \in Names : pluginConfig[n].name = n
  /\ trace = <<>>
  /\ call = NoCall
  /\ pubsub = PubSub_new
  /\ initDone = FALSE

SpecThrow == InitThrow /\ [][Next]_vars

\* --------------------------- a page whose experiment rewrites the targeting
\* an experiment for the test group 0..49 that moves plugin 'a' to the news
\* section or switches it off, with the user inside or outside the group
RetargetManagers ==
  {ExperimentManager_register(NewManager(TRUE, g), Experiment("e1", <<0, 49>>, "a", k)) :
     g \in {10, 60}, k \in {"retarget", "deactivate"}}

InitRetarget ==
  /\ plugins = [n \in Names |-> 0]
  /\ heap = <<>>
  /\ metrics = [n \in Names |-> "none"]
  /\ consentQueue = <<>>
  /\ handles = [h \in Handles |-> NoHandle]
  /\ timers = {}
  /\ scripts = {}
  /\ consent = FALSE
  /\ urlEnable \in SUBSET Names
  /\ urlDisable \in DisableOpts
  /\ experiments \in RetargetManagers
  /\ pluginConfig \in [Names -> {c \in Configs : c.url = "u1" /\ c.hooks = "safe"}]
  /\ \A n \in Names : pluginConfig[n].name = n
  /\ trace = <<>>
  /\ call = NoCall
  /\ pubsub = PubSub_new
  /\ initDone = FALSE

SpecRetarget == InitRetarget /\ [][Next]_vars

\* ------------------------------- a page whose configurations carry a status
\* normalizePluginConfig takes config.status when the configuration has one
StatusConfigs ==
  {[c EXCEPT !.status = st] :
     c \in {d \in Configs : d.url = "u1" /\ d.hooks = "safe"}, st \in {"none", "loaded"}}

InitStatus ==
  /\ plugins = [n \in Names |-> 0]
  /\ heap = <<>>
  /\ metrics = [n \in Names |-> "none"]
  /\ consentQueue = <<>>
  /\ handles = [h \in Handles |-> NoHandle]
  /\ timers = {}
  /\ scripts = {}
  /\ consent = FALSE
  /\ urlEnable = {}
  /\ urlDisable = {}
  /\ experiments = NoManager
  /\ pluginConfig \in [Names -> StatusConfigs]
  /\ \A n \in Names : pluginConfig[n].name = n
  /\ trace = <<>>
  /\ call = NoCall
  /\ pubsub = PubSub_new
  /\ initDone = FALSE

SpecStatus == InitStatus /\ [][Next]_vars

\* ------------------------------------------------ a page with two plugins
PairNames == {"a", "b"}

\* the configurations of the two plugins: scripts to fetch, with or without
\* a consent requirement; the hooks of plugin 'a' may throw
PairConfigs ==
  {[c EXCEPT !.name = n] :
     c \in {d \in Configs : d.url = "u1" /\ d.active /\ d.domains = <<"all">>},
     n \in PairNames}

InitPair ==
  /\ plugins = [n \in PairNames |-> 0]
  /\ heap = <<>>
  /\ metrics = [n \in PairNames |-> "none"]
  /\ consentQueue = <<>>
  /\ handles = [h \in Handles |-> NoHandle]
  /\ timers = {}
  /\ scripts = {}
  /\ consent = FALSE
  /\ urlEnable = {}
  /\ urlDisable = {}
  /\ experiments = NoManager
  /\ pluginConfig \in [PairNames -> PairConfigs]
  /\ \A n \in PairNames : pluginConfig[n].name = n
  /\ pluginConfig["b"].hooks = "safe"
  /\ trace = <<>>
  /\ call = NoCall
  /\ pubsub = PubSub_new
  /\ initDone = FALSE

LoadPair ==
  \E name \in PairNames, context \in Contexts, thr \in LoadThrows :
    /\ \E h \in Handles : handles[h].state = "unused"
    /\ plugins[name] # 0 \/ Len(heap) < MaxObjs
    /\ Install(load(State, pluginConfig[name], context, thr))

RegisterPair ==
  \E name \in PairNames :
    /\ Len(heap) < MaxObjs
    /\ Install(register(State, pluginConfig[name]))

NextPair ==
  \/ LoadPair
  \/ RegisterPair
  \/ ProcessConsentQueue
  \/ TimeoutFires
  \/ ScriptLoads
  \/ ScriptFails
  \/ ConsentChanges

SpecPair == InitPair /\ [][NextPair]_vars

\* --------------------------------- a page that subscribes to loader events
\* the topic of publishEvent(name, event): eventPrefix.name.event
EventTopic(name, event) == "plugin." \o name \o "." \o event

\* the events load() publishes before it returns
GateEvents == {"override.enabled", "override.disabled", "consent.pending"}

\* window.PubSub.publish of the last event of s.trace: publish calls every
\* subscriber of the topic synchronously, inside publishEvent.  The
\* subscriber of this page unsubscribes and calls loadPlugins; its load()
\* calls are recorded between the entries 'enter' and 'return'.
publishToSubscribers(s, context, thr) ==
  LET e == s.trace[Len(s.trace)]
      topic == EventTopic(e.n, e.v)
      subs == {i \in 1..Len(s.pubsub.topics) : s.pubsub.topics[i].topic = topic}
      s1 == [s EXCEPT !.pubsub.topics = SelectSeq(@, LAMBDA x : x.topic # topic),
                      !.pubsub.publishedTopics = Append(@, topic)]
      r == callFunc(s1, "loadPlugins", context, thr)
  IN IF e.k = "event" /\ subs # {}
       THEN [r EXCEPT !.trace = s.trace \o <<E("subscriber", e.n, "enter", 0)>>
                                  \o r.trace \o <<E("subscriber", e.n, "return", 0)>>]
       ELSE s

\* load on a page with subscribers: the events of the URL override step and
\* of the consent gate reach the subscribers where load publishes them
loadWithSubscribers(s, config, context, thr) ==
  LET h == NextHandle(s)
      existing == s.plugins[config.name]
      p == IF existing # 0 THEN existing ELSE Len(s.heap) + 1
      s0 == [s EXCEPT !.heap = IF existing # 0 THEN @
                                ELSE Append(@, normalizePluginConfig(config)),
                      !.plugins[config.name] = p,
                      !.handles[h] = [NoHandle EXCEPT !.state = "pending", !.obj = p],
                      !.trace = <<E("call", config.name, "load", h)>>]
      s1 == applyUrlOverride(s0, p)
      s2 == IF Len(s1.trace) > Len(s0.trace) THEN publishToSubscribers(s1, context, thr)
            ELSE s1
      s3 == loadGates(s2, p, h, context, thr)
      s4 == IF s3.trace[Len(s3.trace)].v = "consent.pending"
              THEN publishToSubscribers(s3, context, thr)
              ELSE s3
  IN PromiseExecutor(s4, h)

\* the page subscribed one function to one of the events, or to none
SubscribedPages ==
  {PubSub_new}
  \cup {[PubSub_new EXCEPT !.topics = <<[topic |-> EventTopic(n, ev), func |-> "loadPlugins"]>>] :
          n \in Names, ev \in GateEvents}

InitSubscribed ==
  /\ plugins = [n \in Names |-> 0]
  /\ heap = <<>>
  /\ metrics = [n \in Names |-> "none"]
  /\ consentQueue = <<>>
  /\ handles = [h \in Handles |-> NoHandle]
  /\ timers = {}
  /\ scripts = {}
  /\ consent = FALSE
  /\ urlEnable \in SUBSET Names
  /\ urlDisable \in DisableOpts
  /\ experiments = NoManager
  /\ pluginConfig \in [Names -> {c \in Configs : c.url = "u1" /\ c.hooks = "safe"}]
  /\ \A n \in Names : pluginConfig[n].name = n
  /\ trace = <<>>
  /\ call = NoCall
  /\ pubsub \in SubscribedPages
  /\ initDone = FALSE

LoadSubscribed ==
  \E name \in Names, context \in Contexts, thr \in {{}} :
    /\ \A h \in Handles : handles[h].state = "unused"
    /\ Install(loadWithSubscribers(State, pluginConfig[name], context, thr))

NextSubscribed ==
  \/ LoadSubscribed
  \/ Load
  \/ ProcessConsentQueue
  \/ TimeoutFires
  \/ ScriptLoads
  \/ ScriptFails
  \/ ConsentChanges

SpecSubscribed == InitSubscribed /\ [][NextSubscribed]_vars

\* --------------------------------------------- the entry point and its page
\* the document is ready: init() runs
EntryPointInit ==
  \E context \in Contexts, thr \in LoadThrows :
    /\ ~initDone
    /\ \E h \in Handles : handles[h].state = "unused"
    /\ Install(init(State, context, thr))

\* the page (its CMP) publishes a topic on window.PubSub
PagePublishes ==
  \E topic \in {ReadyTopic, OtherTopic}, context \in Contexts, thr \in LoadThrows :
    /\ Len(pubsub.publishedTopics) < MaxPublished
    /\ \E h \in Handles : handles[h].state = "unused"
    /\ Install(publish(State, topic, context, thr))

NextEntry ==
  \/ EntryPointInit
  \/ PagePublishes
  \/ ProcessConsentQueue
  \/ TimeoutFires
  \/ ScriptLoads
  \/ ScriptFails
  \/ ConsentChanges

\* the page after the entry point's module ran: every configured plugin is
\* registered and the ExperimentManager is connected
InitEntry ==
  /\ pluginConfig \in [Names -> Configs]
  /\ \A n \in Names : pluginConfig[n].name = n
  /\ heap = [i \in 1..Len(PluginOrder) |-> normalizePluginConfig(pluginConfig[PluginOrder[i]])]
  /\ plugins = [n \in Names |-> CHOOSE i \in 1..Len(PluginOrder) : PluginOrder[i] = n]
  /\ metrics = [n \in Names |-> "none"]
  /\ consentQueue = <<>>
  /\ handles = [h \in Handles |-> NoHandle]
  /\ timers = {}
  /\ scripts = {}
  /\ consent = FALSE
  /\ urlEnable \in SUBSET Names
  /\ urlDisable \in DisableOpts
  /\ experiments \in {m \in Managers : m.present}
  /\ trace = <<>>
  /\ call = NoCall
  /\ pubsub = PubSub_new
  /\ initDone = FALSE

SpecEntry == InitEntry /\ [][NextEntry]_vars

\* ------------------------------------- the targeting functions, called directly
\* 'sport.football' and 'gb', shortened
SportSub == <<"s", "p", "x">>
Gb == <<"g", "b">>

Values == {Sport, SportUpper, SportSub, News, Undefined}
RuleValues == {Sport, SportUpper, News, AllStr}

\* the rule lists of up to MaxRules rules
RuleLists == UNION {[1..n -> RuleValues] : n \in 0..MaxRules}

\* 'regex' is a match type the switch does not know
MatchTypes == {"exact", "startsWith", "includes", "regex"}

DomainLists == UNION {[1..n -> {"all", Host, OtherHost}] : n \in 0..MaxRules}

\* include / exclude objects: a special predicate and the lists of two dimensions
RuleSets ==
  {[special |-> sp, rules |-> [d \in RuleDims |-> IF d = "section" THEN rs ELSE rg]] :
     sp \in {"absent", "true", "false", "throws"},
     rs \in {<<>>, <<Sport>>, <<News>>, <<AllStr>>},
     rg \in {<<>>, <<Gb>>}}

\* contexts of two dimensions, in key order, of one dimension and of none
TargetingContexts ==
  {<<CtxEntry("section", v), CtxEntry("geo", Gb)>> : v \in {Sport, SportSub, News}}
    \cup {<<CtxEntry("geo", Gb), CtxEntry("section", Sport)>>}
    \cup {<<CtxEntry("section", Sport)>>, <<>>}

\* The loader's own state, which a direct call of a targeting function leaves
\* alone.  The functions keep no state, so a run makes one call.
loaderVars ==
  <<plugins, heap, metrics, consentQueue, handles, timers, scripts, consent,
    urlEnable, urlDisable, experiments, pluginConfig, trace, pubsub, initDone>>

CallMatchesRule ==
  \E value \in Values, rules \in RuleLists, matchType \in MatchTypes :
    /\ call = NoCall
    /\ call' = [NoCall EXCEPT !.fn = "matchesRule", !.value = value, !.rules = rules,
                              !.matchType = matchType,
                              !.matched = matchesRule(value, rules, matchType)]
    /\ UNCHANGED loaderVars

CallIsExcluded ==
  \E value \in Values, rules \in RuleLists, matchType \in MatchTypes :
    /\ call = NoCall
    /\ call' = [NoCall EXCEPT !.fn = "isExcluded", !.value = value, !.rules = rules,
                              !.matchType = matchType,
                              !.matched = isExcluded(value, rules, matchType)]
    /\ UNCHANGED loaderVars

CallMatchesDomain ==
  \E domains \in DomainLists, host \in {"", Host, OtherHost} :
    /\ call = NoCall
    /\ call' = [NoCall EXCEPT !.fn = "matchesDomain", !.domains = domains, !.host = host,
                              !.matched = matchesDomainAt(domains, host)]
    /\ UNCHANGED loaderVars

CallEvaluateTargeting ==
  \E include \in RuleSets, exclude \in RuleSets, context \in TargetingContexts :
    /\ call = NoCall
    /\ call' = [NoCall EXCEPT !.fn = "evaluateTargeting", !.include = include,
                              !.exclude = exclude, !.context = context,
                              !.matched = evaluateTargeting(include, exclude, context,
                                                            LoaderDimensionConfig).matched,
                              !.reason = evaluateTargeting(include, exclude, context,
                                                           LoaderDimensionConfig).reason]
    /\ UNCHANGED loaderVars

NextTargeting ==
  \/ Load
  \/ CallMatchesRule
  \/ CallIsExcluded
  \/ CallMatchesDomain
  \/ CallEvaluateTargeting

\* a page with no overrides and no experiments
InitTargeting ==
  /\ Init
  /\ urlEnable = {} /\ urlDisable = {}
  /\ ~experiments.present
  /\ \A n \in Names :
       pluginConfig[n] = [name |-> n, url |-> "u1", active |-> TRUE, domains |-> <<"all">>,
                          consentState |-> <<"all">>, include |-> SectionSport,
                          exclude |-> NoRules, hooks |-> "safe", status |-> "none"]

SpecTargeting == InitTargeting /\ [][NextTargeting]_vars

\* ------------------------------------- a page whose dimension getters throw
\* the keys of this.dimensions, in insertion order
Dimensions == <<"section", "geo">>

\* what a getter does when getContext calls it: it returns a value or throws
Threw == <<"#threw">>
GetterResults == {Sport, News, Threw}

\* getContext that gives up at the first getter that throws: the dimensions
\* after it stay undefined
getContext_GivesUp(dimensions, returns) ==
  [i \in 1..Len(dimensions) |->
     CtxEntry(dimensions[i],
              IF \E j \in 1..i : returns[j] = Threw THEN Undefined ELSE returns[i])]

\* getContext: returns[i] is what the getter of dimensions[i] does in this call
getContext(dimensions, returns) ==
  [i \in 1..Len(dimensions) |->
     CtxEntry(dimensions[i], IF returns[i] = Threw THEN Undefined ELSE returns[i])]

\* what the getters did and what getContext made of it, one entry for each
\* entry of the context
ContextEntries(returns, context) ==
  [i \in 1..Len(context) |-> Ed("context", context[i].k, Join(returns[i]), 0, Join(context[i].v))]

\* load() on such a page; when it gets as far as its call of getContext,
\* the call is recorded after the entries of the load
LoadContext ==
  \E name \in Names, returns \in [1..Len(Dimensions) -> GetterResults] :
    /\ \E h \in Handles : handles[h].state = "unused"
    /\ LET context == getContext(Dimensions, returns)
           r == load(State, pluginConfig[name], context, {})
       IN Install([r EXCEPT !.trace =
                     IF \E i \in 1..Len(@) : @[i].k = "targeting"
                       THEN @ \o ContextEntries(returns, context)
                       ELSE @])

NextContext ==
  \/ LoadContext
  \/ TimeoutFires
  \/ ScriptLoads
  \/ ScriptFails

SpecContext == InitTargeting /\ [][NextContext]_vars

\* ------------------------------------------------------------ the claims
InQueue(h) == \E i \in 1..Len(consentQueue) : consentQueue[i].resolve = h

\* nothing is left that could call the resolve function of load h
Stuck(h) == h \notin timers /\ h \notin scripts /\ ~InQueue(h)

\* the last operation of the loader
LastOp == IF trace = <<>> THEN "" ELSE trace[1].v

\* this step is the load() call that returns the promise h
LoadStep(h) == handles[h].state = "unused" /\ handles'[h].state # "unused"

\* this step is a call of processConsentQueue (or changes nothing)
QueueStep ==
  /\ trace' # <<>>
  /\ trace'[1].v = "processConsentQueue"
  /\ consent' = consent

\* this step is the timeout alarm or the executor callback armed by load h
CallbackStep(h) ==
  /\ trace' # <<>>
  /\ trace'[1].k = "call"
  /\ trace'[1].h = h
  /\ \/ trace'[1].v = "timeout" /\ h \in timers /\ h \notin timers'
     \/ trace'[1].v \in {"onload", "onerror"} /\ h \in scripts /\ h \notin scripts'

\* the operation recorded in tr moved load h towards the network: status
\* 'requested', the preload hook or the script
StartsLoad(tr, h) ==
  \E i \in 1..Len(tr) :
    /\ tr[i].h = h
    /\ \/ tr[i].k = "attach"
       \/ tr[i].k = "hook" /\ tr[i].v = "preload"
       \/ tr[i].k = "status" /\ tr[i].v = "requested"

HookCalled(tr) == \E i \in 1..Len(tr) : tr[i].k = "hook"

EventsOf(tr) == SelectSeq(tr, LAMBDA e : e.k = "event")

\* C1: every load() that is not suspended in the consent queue is eventually
\* resolved: a pending load always has its consent-queue entry, its timeout
\* alarm or its executor callback still to come, also when several loads of
\* one name are in flight.
C1_EveryLoadSettles ==
  \A h \in Handles : handles[h].state = "pending" => ~Stuck(h)

\* C2: a timeout alarm or executor callback armed by a load that has already
\* been resolved with a terminal status changes no descriptor and no metrics
\* entry and calls no hook, whatever was loaded in between.
C2_AtMostOneResolution ==
  [][\A h \in Handles :
       (handles[h].state = "resolved" /\ CallbackStep(h))
         => /\ heap' = heap
            /\ metrics' = metrics
            /\ ~HookCalled(trace')]_vars

\* the oracle denies the consent the descriptor requires
Denied(descriptor) == ~consent /\ ConsultsOracle(descriptor.consentState)

C3_NotStarted ==
  /\ \A h \in Handles :
       (LoadStep(h) /\ Denied(heap'[handles'[h].obj])) => ~StartsLoad(trace', h)
  /\ QueueStep =>
       \A i \in 1..Len(consentQueue) :
         Denied(heap[consentQueue[i].plugin])
           => /\ ~StartsLoad(trace', consentQueue[i].resolve)
              /\ handles'[consentQueue[i].resolve] = handles[consentQueue[i].resolve]

\* C3 as stated: while the oracle denies the consent a plugin requires, no
\* load() and no processConsentQueue() moves it to 'requested', calls its
\* preload hook or attaches its script, and the load stays unresolved.
C3_ConsentGatingUnresolved ==
  [][/\ C3_NotStarted
     /\ \A h \in Handles :
          (LoadStep(h) /\ Denied(heap'[handles'[h].obj]))
            => handles'[h].state = "pending"]_vars

\* C3 amended: as C3, but the load stays unresolved (suspended in the
\* consent queue) only if the plugin is active after the URL override step;
\* the load of a plugin that is not active is resolved with 'inactive'.
C3_ConsentGating ==
  [][/\ C3_NotStarted
     /\ \A h \in Handles :
          (LoadStep(h) /\ Denied(heap'[handles'[h].obj]))
            => IF heap'[handles'[h].obj].active
                 THEN /\ handles'[h].state = "pending"
                      /\ Len(consentQueue') = Len(consentQueue) + 1
                      /\ consentQueue'[Len(consentQueue')].resolve = h
                 ELSE /\ handles'[h].state = "resolved"
                      /\ handles'[h].status = "inactive"]_vars

\* a load was suspended by the denying oracle, and a later
\* processConsentQueue under the same denial kept it suspended
C3_Witness ==
  /\ LastOp = "processConsentQueue"
  /\ \E i \in 1..Len(trace) : trace[i].k = "consent" /\ trace[i].v = "deny"
  /\ \E h \in Handles : handles[h].state = "pending" /\ InQueue(h)

\* C4: every load that was suspended in the consent queue and has left it is
\* resolved with a terminal status once its alarm and its executor callback
\* are over, also when the same name was queued twice.
C4_ReleasedLoadSettles ==
  \A h \in Handles :
    (handles[h].queued /\ Stuck(h))
      => /\ handles[h].state = "resolved"
         /\ handles[h].status \in {"ignore", "loaded", "error", "timeout"}

\* C5: a load() of a name the URL enables reaches executeLoad (status
\* 'requested' when the descriptor has a url), whatever its active flag,
\* consentState, domains, include/exclude and experiments are.
C5_UrlEnableBypassesGates ==
  (LastOp = "load" /\ trace[1].n \in urlEnable)
    => /\ trace[2] = E("event", trace[1].n, "override.enabled", 0)
       /\ \E i \in 1..Len(trace) : trace[i] = E("timer", trace[1].n, "arm", trace[1].h)
       /\ heap[handles[trace[1].h].obj].url # "none"
            => \E i \in 1..Len(trace) :
                 trace[i] = E("status", trace[1].n, "requested", trace[1].h)

\* the URL disables the name: 'all' or the name is in the disable list and
\* the name is not in the enable list
UrlDisabled(n) == n \notin urlEnable /\ ("all" \in urlDisable \/ n \in urlDisable)

\* C6: a load() of a name the URL disables sets active=false, publishes
\* override.disabled first, then 'inactive' and 'complete', and resolves
\* with 'inactive'; it asks no oracle, applies no experiment, evaluates no
\* targeting and does not reach 'requested'.
C6_UrlDisable ==
  (LastOp = "load" /\ UrlDisabled(trace[1].n))
    => LET n == trace[1].n
           h == trace[1].h
       IN /\ trace = <<E("call", n, "load", h),
                       E("event", n, "override.disabled", 0),
                       E("status", n, "inactive", h),
                       E("metrics", n, "inactive", 0),
                       E("event", n, "inactive", 0),
                       E("event", n, "complete", 0),
                       E("resolve", n, "inactive", h)>>
          /\ handles[h].state = "resolved"
          /\ handles[h].status = "inactive"
          /\ heap[handles[h].obj].active = FALSE
          /\ heap[handles[h].obj].status = "inactive"
          /\ ~InQueue(h)
          /\ h \notin (timers \cup scripts)

\* a load of a name disabled by 'all', of a descriptor that was active, with
\* consent required and an experiment registered for it
C6_Witness ==
  /\ LastOp = "load"
  /\ UrlDisabled(trace[1].n)
  /\ "all" \in urlDisable
  /\ pluginConfig[trace[1].n].active
  /\ pluginConfig[trace[1].n].consentState = <<"analytics">>
  /\ experiments.present
  /\ handles[trace[1].h].status = "inactive"

\* C7: a lifecycle hook that throws is caught at the call site: load() does
\* not reject, and the transition still resolves the completion handle
\* (after preload: the script is still attached or the load ignored).
C7_HookFailureContained ==
  \A i \in 1..Len(trace) :
    trace[i].k = "throw"
      => /\ handles[trace[i].h].state # "rejected"
         /\ \E j \in (i + 1)..Len(trace) :
              /\ trace[j].h = trace[i].h
              /\ trace[j].k \in {"resolve", "attach"}

\* the descriptor objects something still refers to
Live ==
  ({plugins[n] : n \in Names} \ {0})
    \cup {consentQueue[i].plugin : i \in 1..Len(consentQueue)}
    \cup {handles[h].obj : h \in (timers \cup scripts)}

\* C8: at most one live descriptor object per plugin name.
C8_DescriptorUnique ==
  \A p, q \in Live : heap[p].name = heap[q].name => p = q

\* the event of a terminal status
EventOf(status) == IF status = "loaded" THEN "load" ELSE status

\* the terminal transitions, their events and their resolutions, in order
Outcome ==
  SelectSeq(trace, LAMBDA e :
    \/ e.k = "status" /\ e.v \in Terminal
    \/ e.k = "event" /\ e.v \in {"load", "error", "timeout", "ignore", "inactive", "complete"}
    \/ e.k = "resolve")

\* C9: every terminal transition publishes its one event, then one
\* 'complete', then resolves the handle with the descriptor's status; there
\* is no 'complete' without the event of the transition before it.
C9_EventThenCompleteThenResolve ==
  /\ Len(Outcome) % 4 = 0
  /\ \A b \in 0..((Len(Outcome) \div 4) - 1) :
       LET st == Outcome[4 * b + 1]
       IN /\ st.k = "status"
          /\ Outcome[4 * b + 2] = Ed("event", st.n, EventOf(st.v), 0, Outcome[4 * b + 2].d)
          /\ Outcome[4 * b + 3] = E("event", st.n, "complete", 0)
          /\ Outcome[4 * b + 4] = E("resolve", st.n, st.v, st.h)

\* C10: processConsentQueue() under a denying oracle changes nothing: the
\* queue keeps its entries in their order, no event is published, and no
\* descriptor, metrics entry or handle changes.
C10_DeniedQueueIdempotent ==
  [][(QueueStep /\ \A i \in 1..Len(consentQueue) : Denied(heap[consentQueue[i].plugin]))
       => /\ consentQueue' = consentQueue
          /\ heap' = heap
          /\ metrics' = metrics
          /\ handles' = handles
          /\ plugins' = plugins
          /\ timers' = timers /\ scripts' = scripts
          /\ experiments' = experiments
          /\ EventsOf(trace') = <<>>]_vars

\* processConsentQueue ran over two suspended loads and was denied for both
C10_Witness ==
  /\ LastOp = "processConsentQueue"
  /\ Len(consentQueue) = 2
  /\ consentQueue[1].resolve # consentQueue[2].resolve
  /\ Len(SelectSeq(trace, LAMBDA e : e.k = "consent" /\ e.v = "deny")) = 2

\* the loads the last operation took out of the consent queue and re-ran
Released ==
  {h \in Handles : \E i \in 1..Len(trace) :
     trace[i].h = h /\ trace[i].k \in {"timer", "status"}}

\* C11: processConsentQueue() re-runs a released entry through domain,
\* experiment application and targeting: for a released plugin whose domain
\* matches, the experiments registered for it (active, with no targeting of
\* their own) are applied or recorded as eligible before its targeting is
\* evaluated.
C11_ReleaseAppliesExperiments ==
  (LastOp = "processConsentQueue" /\ experiments.present /\ experiments.active)
    => \A h \in Released :
         LET descriptor == heap[handles[h].obj]
         IN (/\ matchesDomain(descriptor.domains)
             /\ \E x \in 1..Len(experiments.registry) :
                  /\ experiments.registry[x].active
                  /\ experiments.registry[x].plugin = descriptor.name
                  /\ experiments.registry[x].include = NoRules
                  /\ experiments.registry[x].exclude = NoRules)
              => \E j, i \in 1..Len(trace) :
                   /\ j < i
                   /\ trace[j].k \in {"apply", "eligible"}
                   /\ trace[j].n = descriptor.name
                   /\ trace[i].k = "targeting"
                   /\ trace[i].n = descriptor.name

\* the dimensions of a context that the per-dimension rules let pass
PassesDimensions(include, exclude, context, dimensionConfig) ==
  \A i \in 1..Len(context) :
    LET mt == MatchTypeOf(dimensionConfig, context[i].k)
        ex == RulesFor(exclude, context[i].k)
        inc == RulesFor(include, context[i].k)
    IN /\ ~(Len(ex) > 0 /\ isExcluded(context[i].v, ex, mt))
       /\ Len(inc) > 0 => matchesRule(context[i].v, inc, mt)

\* C18: evaluateTargeting asks exclude.special first (true: not matched),
\* then include.special (true: matched, whatever the lists of the
\* dimensions say), and consults the per-dimension rules only when neither
\* returned true.
C18_SpecialOrder ==
  call.fn = "evaluateTargeting"
    => call.matched =
         IF call.exclude.special = "true" THEN FALSE
         ELSE IF call.include.special = "true" THEN TRUE
         ELSE PassesDimensions(call.include, call.exclude, call.context,
                               LoaderDimensionConfig)

\* include.special() returned true for a value an exclude list blocks
C18_Witness ==
  /\ call.fn = "evaluateTargeting"
  /\ call.include.special = "true"
  /\ call.exclude.special \in {"false", "throws"}
  /\ ~PassesDimensions(NoRules, call.exclude, call.context, LoaderDimensionConfig)
  /\ call.matched

\* C19: when no special predicate returns true and the value of a dimension
\* of the context matches the exclude list and the include list of that
\* dimension, evaluateTargeting returns matched = false.
C19_ExcludeWins ==
  (/\ call.fn = "evaluateTargeting"
   /\ call.exclude.special # "true" /\ call.include.special # "true"
   /\ \E i \in 1..Len(call.context) :
        LET mt == MatchTypeOf(LoaderDimensionConfig, call.context[i].k)
            ex == RulesFor(call.exclude, call.context[i].k)
            inc == RulesFor(call.include, call.context[i].k)
        IN /\ Len(ex) > 0 /\ matchesRule(call.context[i].v, ex, mt)
           /\ Len(inc) > 0 /\ matchesRule(call.context[i].v, inc, mt))
    => ~call.matched

\* C19 for the exclude lists isExcluded itself reports: a value that
\* isExcluded blocks is not matched, whatever the include list says.
C19_IsExcludedWins ==
  (/\ call.fn = "evaluateTargeting"
   /\ call.exclude.special # "true" /\ call.include.special # "true"
   /\ \E i \in 1..Len(call.context) :
        LET mt == MatchTypeOf(LoaderDimensionConfig, call.context[i].k)
            ex == RulesFor(call.exclude, call.context[i].k)
        IN Len(ex) > 0 /\ isExcluded(call.context[i].v, ex, mt))
    => ~call.matched

\* C20: a rule list that contains 'all' makes matchesRule and isExcluded
\* return true for every value and match type, and a domain list that
\* contains 'all' makes matchesDomain return true for every host.
C20_Wildcard ==
  /\ (call.fn \in {"matchesRule", "isExcluded"} /\ ArrIncludes(call.rules, AllStr))
       => call.matched
  /\ (call.fn = "matchesDomain" /\ ArrIncludes(call.domains, "all"))
       => call.matched

\* the last step was a direct call of apply
ApplyStep ==
  /\ trace' # <<>>
  /\ trace'[1].k = "call"
  /\ trace'[1].v = "apply"

\* the context a recorded apply call ran in
ContextNamed(section) == CHOOSE c \in Contexts : Join(c[1].v) = section

Count(seq, id) == Cardinality({i \in 1..Len(seq) : seq[i] = id})

\* what the apply call for pluginName in context has to do with experiment e:
\* "skip" it, "apply" it or record it as "eligible"
Classify(mgr, e, pluginName, context) ==
  IF ~(e.active /\ (IF pluginName # "" THEN e.plugin = pluginName ELSE e.plugin = ""))
    THEN "skip"
  ELSE IF ~PassesDimensions(e.include, e.exclude, context, LoaderDimensionConfig)
    THEN "skip"
  ELSE IF e.testRange[1] <= mgr.testgroup /\ mgr.testgroup <= e.testRange[2]
    THEN "apply"
  ELSE "eligible"

\* the descriptor after the apply functions of the experiments to apply ran
\* on it, in registry order
RECURSIVE Mutated(_, _, _, _, _)
Mutated(desc, mgr, pluginName, context, i) ==
  IF i > Len(mgr.registry) THEN desc
  ELSE Mutated(IF Classify(mgr, mgr.registry[i], pluginName, context) = "apply"
                 THEN ApplyEffect(desc, mgr.registry[i].apply)
                 ELSE desc,
               mgr, pluginName, context, i + 1)

\* the ids an apply step appended to a list
Appended(before, after) == SubSeq(after, Len(before) + 1, Len(after))

\* the classification of C12 for one apply step; recordsThrown says whether
\* an apply function that throws still has its id recorded as applied
C12_Classified(recordsThrown) ==
  LET mgr == experiments
      pluginName == trace'[1].n
      p == trace'[1].h
      context == ContextNamed(trace'[1].d)
  IN /\ experiments'.registry = mgr.registry
     /\ SubSeq(experiments'.applied, 1, Len(mgr.applied)) = mgr.applied
     /\ SubSeq(experiments'.eligible, 1, Len(mgr.eligible)) = mgr.eligible
     /\ heap' = [heap EXCEPT ![p] = Mutated(@, mgr, pluginName, context, 1)]
     /\ \A x \in 1..Len(mgr.registry) :
          LET e == mgr.registry[x]
              class == Classify(mgr, e, pluginName, context)
          IN /\ Count(Appended(mgr.applied, experiments'.applied), e.id)
                  = IF class = "apply" /\ (recordsThrown \/ e.apply \notin ApplyThrows)
                      THEN 1 ELSE 0
             /\ Count(Appended(mgr.eligible, experiments'.eligible), e.id)
                  = IF class = "eligible" THEN 1 ELSE 0
             /\ Cardinality({i \in 1..Len(trace') :
                               trace'[i].k = "apply" /\ trace'[i].v = e.id})
                  = IF class = "apply" THEN 1 ELSE 0

\* C12 as stated: apply(pluginName, descriptor) skips an active matching
\* experiment whose targeting does not match the context, invokes the apply
\* function once and appends the id to applied when the testgroup is in the
\* range, and appends the id to eligible, leaving the descriptor alone, when
\* it is not.
C12_ApplyClassifiesAll ==
  [][ApplyStep => C12_Classified(TRUE)]_vars

\* C12 amended: the classification is that of a manager that is active, and
\* the id of an experiment whose apply function throws is appended to
\* neither list; the apply of a manager that is not active changes nothing.
C12_ApplyClassifies ==
  [][ApplyStep =>
       IF experiments.active
         THEN C12_Classified(FALSE)
         ELSE experiments' = experiments /\ heap' = heap /\ Len(trace') = 1]_vars

\* an apply call recorded one experiment as eligible and invoked another
\* whose apply function threw
C12_Witness ==
  /\ LastOp = "apply"
  /\ \E i \in 1..Len(trace) : trace[i].k = "eligible"
  /\ \E i \in 1..Len(trace) : trace[i].k = "apply" /\ trace[i].d = "threw"

\* C13: no operation of the Experiment Manager changes testgroup, and
\* isInExperiment(id) gives the same answer before and after every operation
\* that leaves the experiment's testRange and active flag and the manager's
\* active flag as they were; two calls in a row return the same boolean.
C13_BucketingStable ==
  [][/\ experiments'.testgroup = experiments.testgroup
     /\ \A id \in ExpIds :
          LET i == RegistryIndex(experiments.registry, id)
              j == RegistryIndex(experiments'.registry, id)
          IN (/\ i # 0 /\ j # 0
              /\ experiments'.registry[j].testRange = experiments.registry[i].testRange
              /\ experiments'.registry[j].active = experiments.registry[i].active
              /\ experiments'.active = experiments.active)
               => isInExperiment(experiments', id) = isInExperiment(experiments, id)
     /\ (/\ trace # <<>> /\ trace[1].v = "isInExperiment"
         /\ trace' # <<>> /\ trace'[1].v = "isInExperiment"
         /\ trace'[1].n = trace[1].n)
          => trace'[1].d = trace[1].d]_vars

\* isInExperiment answered true after experiments were applied and the
\* tracking was reset
C13_Witness ==
  /\ LastOp = "isInExperiment"
  /\ trace[1].d = "true"
  /\ experiments.applied = <<>>
  /\ heap # <<>> /\ \E p \in 1..Len(heap) : heap[p].url = "u2"

Buckets == 0..99

\* the testgroups for which isInExperiment(id) is true
Admitted(id) ==
  {g \in Buckets : isInExperiment([experiments EXCEPT !.testgroup = g], id)}

\* the range statement of C14 in the current state: every registered active
\* experiment admits exactly the testgroups of its testRange, both ends
\* included
C14_Ranges ==
    /\ \A x \in 1..Len(experiments.registry) :
         LET e == experiments.registry[x]
         IN e.active =>
              /\ Admitted(e.id) = {g \in Buckets : e.testRange[1] <= g /\ g <= e.testRange[2]}
              /\ e.testRange = <<0, 24>> => Cardinality(Admitted(e.id)) = 25
              /\ (LastOp = "isInExperiment" /\ trace[1].n = e.id)
                   => trace[1].d = BoolStr(/\ e.testRange[1] <= experiments.testgroup
                                           /\ experiments.testgroup <= e.testRange[2])
    /\ \A x, y \in 1..Len(experiments.registry) :
         LET e == experiments.registry[x]
             f == experiments.registry[y]
         IN (e.active /\ f.active /\ e.testRange = <<0, 49>> /\ f.testRange = <<50, 99>>)
              => /\ Admitted(e.id) \cap Admitted(f.id) = {}
                 /\ Admitted(e.id) \cup Admitted(f.id) = Buckets

\* C14 as stated, for every manager: violated by a manager constructed with
\* active: false, whose isInExperiment is false for every testgroup
C14_RangeInclusiveAll == C14_Ranges

\* C14 amended: for a manager that is active and a registered active
\* experiment with testRange [min, max], isInExperiment(id) is true exactly
\* for min <= testgroup <= max: [0,24] admits the 25 values 0..24, and [0,49]
\* and [50,99] admit disjoint sets that together cover 0..99.
C14_RangeInclusive == experiments.active => C14_Ranges

\* isInExperiment answered true for the testgroup at the upper end of the
\* range, with [0,49] and [50,99] both registered
C14_Witness ==
  /\ LastOp = "isInExperiment"
  /\ trace[1].d = "true"
  /\ experiments.active
  /\ \E x, y \in 1..Len(experiments.registry) :
       /\ experiments.registry[x].id = trace[1].n
       /\ experiments.registry[x].testRange[2] = experiments.testgroup
       /\ experiments.registry[x].testRange = <<50, 99>>
       /\ experiments.registry[y].testRange = <<0, 49>>
       /\ experiments.registry[y].active

\* C15: the testgroup of the Experiment Manager is an integer in [0,99] in
\* every reachable state, supplied or drawn.
C15_TestgroupInRange ==
  experiments.present => experiments.testgroup \in Buckets

\* C16: an apply call with a plugin name invokes and records only experiments
\* whose plugin field is that name; an apply call without a plugin name
\* invokes and records only experiments without a plugin field.
C16_ExperimentScoping ==
  [][ApplyStep =>
       LET pluginName == trace'[1].n
           considered(id) ==
             \E x \in 1..Len(experiments.registry) :
               /\ experiments.registry[x].id = id
               /\ experiments.registry[x].plugin = pluginName
       IN /\ \A i \in 2..Len(trace') :
               trace'[i].k \in {"apply", "eligible"} => considered(trace'[i].v)
          /\ \A i \in 1..Len(Appended(experiments.applied, experiments'.applied)) :
               considered(Appended(experiments.applied, experiments'.applied)[i])
          /\ \A i \in 1..Len(Appended(experiments.eligible, experiments'.eligible)) :
               considered(Appended(experiments.eligible, experiments'.eligible)[i])]_vars

\* an apply call for plugin a recorded an experiment of a while an active
\* global experiment with the testgroup in its range was registered
C16_Witness ==
  /\ LastOp = "apply"
  /\ trace[1].n = "a"
  /\ experiments.active
  /\ \E i \in 2..Len(trace) : trace[i].k \in {"apply", "eligible"}
  /\ \E x \in 1..Len(experiments.registry) :
       /\ experiments.registry[x].plugin = ""
       /\ experiments.registry[x].active
       /\ experiments.registry[x].testRange[1] <= experiments.testgroup
       /\ experiments.testgroup <= experiments.registry[x].testRange[2]

\* the loader whose manager never had the throwing experiments registered
WithoutThrowing(s) ==
  [s EXCEPT !.experiments.registry = SelectSeq(@, LAMBDA e : e.apply \notin ApplyThrows)]

\* an apply function threw during the operation recorded in tr
ApplyThrew(tr) == \E i \in 1..Len(tr) : tr[i].k = "apply" /\ tr[i].d = "threw"

\* C17: when an apply function throws during a load(), the exception is
\* caught, the remaining experiments are applied, and the load goes on to
\* targeting and ends as if the throwing experiment had not been applied:
\* as the same load() of a loader without that experiment.
C17_ThrowingApplyIsNoOp ==
  [][\A h \in Handles :
       (LoadStep(h) /\ ApplyThrew(trace'))
         => \E context \in Contexts, thr \in LoadThrows :
              LET r == load(WithoutThrowing(State), pluginConfig[trace'[1].n], context, thr)
              IN /\ r.heap = heap'
                 /\ r.handles = handles'
                 /\ r.metrics = metrics'
                 /\ r.timers = timers' /\ r.scripts = scripts'
                 /\ r.consentQueue = consentQueue'
                 /\ r.experiments.applied = experiments'.applied
                 /\ r.experiments.eligible = experiments'.eligible
                 /\ r.trace = SelectSeq(trace', LAMBDA e : ~(e.k = "apply" /\ e.d = "threw"))]_vars

\* C17, the part the try/catch of apply guarantees: the experiments after
\* the throwing one are applied, targeting is evaluated and the load is not
\* rejected.
C17_ThrowCaught ==
  (LastOp = "load" /\ ApplyThrew(trace))
    => /\ handles[trace[1].h].state # "rejected"
       /\ \E i, j, k \in 1..Len(trace) :
            /\ i < j /\ j < k
            /\ trace[i].k = "apply" /\ trace[i].d = "threw"
            /\ trace[j].k = "apply" /\ trace[j].v = "e2" /\ trace[j].d = ""
            /\ trace[k].k = "targeting"

\* the string form of a value or rule, lower-cased
Folded(x) == ToLowerCase(ToStr(x))

\* v begins with r; v contains r
BeginsWith(v, r) == Len(r) <= Len(v) /\ SubSeq(v, 1, Len(r)) = r
Contains(v, r) ==
  \E a \in 0..(Len(v) - Len(r)) : SubSeq(v, a + 1, a + Len(r)) = r

\* C21: for a non-empty rule list without 'all', matchesRule compares the
\* lower-cased string forms of value and rules: 'startsWith' is true iff the
\* value begins with some rule, 'includes' iff it contains some rule, and
\* 'exact' or an unknown match type iff it equals some rule.  An empty list
\* gives true for matchesRule and false for isExcluded.
C21_MatchSemantics ==
  /\ (call.fn = "matchesRule" /\ call.rules # <<>> /\ ~ArrIncludes(call.rules, AllStr))
       => call.matched =
            (\E i \in 1..Len(call.rules) :
               CASE call.matchType = "startsWith" ->
                      BeginsWith(Folded(call.value), Folded(call.rules[i]))
                 [] call.matchType = "includes" ->
                      Contains(Folded(call.value), Folded(call.rules[i]))
                 [] OTHER -> Folded(call.value) = Folded(call.rules[i]))
  /\ (call.fn = "matchesRule" /\ call.rules = <<>>) => call.matched
  /\ (call.fn = "isExcluded" /\ call.rules = <<>>) => ~call.matched

\* matchesRule('Sp', ['ne', 'sp']) with an unknown match type matched by
\* equality after lower-casing
C21_Witness ==
  /\ call.fn = "matchesRule"
  /\ call.matchType = "regex"
  /\ call.value = SportUpper
  /\ call.rules = <<News, Sport>>
  /\ call.matched

\* the dimension i of the recorded call's context is blocked by the exclude
\* list, or by the include list
ExcludedAt(i) ==
  LET ex == RulesFor(call.exclude, call.context[i].k)
  IN /\ ex # <<>>
     /\ isExcluded(call.context[i].v, ex,
                   MatchTypeOf(LoaderDimensionConfig, call.context[i].k))
NotIncludedAt(i) ==
  LET inc == RulesFor(call.include, call.context[i].k)
  IN /\ inc # <<>>
     /\ ~matchesRule(call.context[i].v, inc,
                     MatchTypeOf(LoaderDimensionConfig, call.context[i].k))

\* the result evaluateTargeting owes for the recorded call when no special
\* predicate returned true
FirstBlock ==
  LET blocked == {i \in 1..Len(call.context) : ExcludedAt(i) \/ NotIncludedAt(i)}
  IN IF blocked = {}
       THEN [matched |-> TRUE, reason |-> "All targeting rules passed"]
       ELSE LET i == CHOOSE j \in blocked : \A k \in blocked : j <= k
            IN [matched |-> FALSE,
                reason |-> (IF ExcludedAt(i) THEN "Excluded by " ELSE "Not included by ")
                             \o call.context[i].k \o ": "
                             \o Join(ToStr(call.context[i].v))]

\* C22: when no special predicate returns true, evaluateTargeting walks the
\* dimensions in the context's key order and returns at the first one that
\* blocks, with the reason naming that dimension and its value; a load() of
\* a descriptor with include {section: ['sport']} under the context
\* {section: 'news'} resolves with status 'ignore' and the reason
\* 'Not included by section: news'.
C22_FirstBlockingDimension ==
  /\ [](/\ (/\ call.fn = "evaluateTargeting"
            /\ call.exclude.special # "true" /\ call.include.special # "true")
            => [matched |-> call.matched, reason |-> call.reason] = FirstBlock
        /\ evaluateTargeting(SectionSport, NoRules, <<CtxEntry("section", News)>>,
                             [d \in {} |-> "exact"])
             = [matched |-> FALSE, reason |-> "Not included by section: ne"])
  /\ [][\A h \in Handles :
          (/\ LoadStep(h)
           /\ heap'[handles'[h].obj].include = SectionSport
           /\ \E i \in 1..Len(trace') : trace'[i].k = "targeting"
           /\ trace' = load(State, pluginConfig[trace'[1].n],
                            <<CtxEntry("section", News)>>, {}).trace)
            => /\ handles'[h].state = "resolved"
               /\ handles'[h].status = "ignore"
               /\ handles'[h].reason = "Not included by section: ne"
               /\ heap'[handles'[h].obj].status = "ignore"]_vars

\* a call whose context has geo before section, with both dimensions
\* blocked, and a load that was ignored by the section
C22_Witness ==
  /\ call.fn = "evaluateTargeting"
  /\ Len(call.context) = 2
  /\ call.context[1].k = "geo"
  /\ ExcludedAt(1) /\ NotIncludedAt(2)
  /\ call.reason = "Excluded by geo: gb"
  /\ LastOp = "load"
  /\ handles[trace[1].h].reason = "Not included by section: ne"

\* the active flag the descriptor of name n has after the URL override step
\* of a load() called in the current state
ActiveAfterOverride(n) ==
  LET o == checkUrlOverride(State, n)
  IN IF o.override /\ ~o.enabled THEN FALSE
     ELSE IF plugins[n] # 0 THEN heap[plugins[n]].active
     ELSE normalizePluginConfig(pluginConfig[n]).active

\* C23: a load() of a plugin that is not active after the URL override step
\* sets status and performance.status to 'inactive', updates the metrics
\* entry, publishes 'inactive' then 'complete' and resolves with 'inactive';
\* it asks no oracle, enqueues nothing, applies no experiment, evaluates no
\* targeting and calls no hook.
C23_InactiveShortCircuit ==
  [][\A h \in Handles :
       (LoadStep(h) /\ ~ActiveAfterOverride(trace'[1].n))
         => LET n == trace'[1].n
                p == handles'[h].obj
            IN /\ SelectSeq(trace', LAMBDA e :
                            ~(e.k = "event" /\ e.v \in {"override.disabled", "override.enabled"}))
                    = <<E("call", n, "load", h),
                        E("status", n, "inactive", h),
                        E("metrics", n, "inactive", 0),
                        E("event", n, "inactive", 0),
                        E("event", n, "complete", 0),
                        E("resolve", n, "inactive", h)>>
               /\ heap'[p].status = "inactive" /\ heap'[p].perfStatus = "inactive"
               /\ metrics'[n] = "inactive"
               /\ handles'[h].state = "resolved" /\ handles'[h].status = "inactive"
               /\ consentQueue' = consentQueue
               /\ experiments' = experiments
               /\ timers' = timers /\ scripts' = scripts]_vars

\* a load resolved 'inactive' for a plugin configured with active: false that
\* the URL does not disable, with consent required, throwing hooks and an
\* experiment registered for it
C23_Witness ==
  /\ LastOp = "load"
  /\ ~pluginConfig[trace[1].n].active
  /\ ~UrlDisabled(trace[1].n)
  /\ pluginConfig[trace[1].n].consentState = <<"analytics">>
  /\ pluginConfig[trace[1].n].hooks = "throwing"
  /\ experiments.present
  /\ handles[trace[1].h].status = "inactive"
  /\ metrics[trace[1].n] = "inactive"

\* C24: an ignored plugin is not retried: every transition to 'ignore' sets
\* the descriptor's active flag to false, no operation sets the flag of a
\* descriptor back to true, and every load() of a name whose stored
\* descriptor is not active resolves with 'inactive' and does not reach
\* 'requested', whatever the context is.
C24_IgnoredNotRetried ==
  [][/\ \A i \in 1..Len(trace') :
          (trace'[i].k = "status" /\ trace'[i].v = "ignore")
            => ~heap'[handles'[trace'[i].h].obj].active
     /\ \A p \in 1..Len(heap) : ~heap[p].active => ~heap'[p].active
     /\ \A h \in Handles :
          (/\ LoadStep(h)
           /\ plugins[trace'[1].n] # 0
           /\ ~heap[plugins[trace'[1].n]].active)
            => /\ handles'[h].obj = plugins[trace'[1].n]
               /\ handles'[h].state = "resolved"
               /\ handles'[h].status = "inactive"
               /\ ~StartsLoad(trace', h)
               /\ h \notin scripts']_vars

\* a plugin configured active, with a url, for every domain and without
\* experiments, was ignored by its targeting, and a later load of the one
\* descriptor resolved 'inactive'
C24_Witness ==
  /\ LastOp = "load"
  /\ pluginConfig[trace[1].n].active
  /\ pluginConfig[trace[1].n].url # "none"
  /\ pluginConfig[trace[1].n].domains = <<"all">>
  /\ ~UrlDisabled(trace[1].n)
  /\ ~experiments.present
  /\ Len(heap) = 1
  /\ handles[trace[1].h].status = "inactive"
  /\ \E g \in Handles :
       /\ g # trace[1].h
       /\ handles[g].status = "ignore"
       /\ handles[g].reason = "Not included by section: ne"

\* C25: getTargetingIds() returns the entries of 'applied' with suffix '_a'
\* in accumulation order, then the entries of 'eligible' with suffix '_e' in
\* accumulation order; its length is |applied| + |eligible|, so an id
\* applied in k apply calls appears k times.
C25_TargetingIds ==
  experiments.present =>
    LET ids == ExperimentManager_getTargetingIds(experiments)
        n == Len(experiments.applied)
    IN /\ Len(ids) = n + Len(experiments.eligible)
       /\ \A i \in 1..n : ids[i] = experiments.applied[i] \o "_a"
       /\ \A j \in 1..Len(experiments.eligible) :
            ids[n + j] = experiments.eligible[j] \o "_e"
       /\ \A id \in ExpIds :
            Count(ids, id \o "_a") = Count(experiments.applied, id)
       /\ LastOp = "getTargetingIds" => trace[1].d = ToString(ids)

\* getTargetingIds was called with an id applied twice and another eligible
C25_Witness ==
  /\ LastOp = "getTargetingIds"
  /\ \E id \in ExpIds : Count(experiments.applied, id) = 2
  /\ experiments.eligible # <<>>

\* C26: register(experiment) without an id returns false and leaves the
\* registry, applied and eligible as they were; register with an id returns
\* true and stores the experiment; unregister(id) of an id that is not
\* registered changes nothing.
C26_RegistryFailures ==
  [][(trace' # <<>> /\ trace'[1].k = "call" /\ trace'[1].n \notin Names)
       => /\ (trace'[1].v = "register" /\ trace'[1].n = "")
               => /\ trace'[1].d = "false"
                  /\ experiments' = experiments
          /\ (trace'[1].v = "register" /\ trace'[1].n # "")
               => /\ trace'[1].d = "true"
                  /\ RegistryIndex(experiments'.registry, trace'[1].n) # 0
                  /\ experiments'.applied = experiments.applied
                  /\ experiments'.eligible = experiments.eligible
          /\ (/\ trace'[1].v = "unregister"
              /\ RegistryIndex(experiments.registry, trace'[1].n) = 0)
               => /\ trace'[1].d = ""
                  /\ experiments' = experiments]_vars

\* register of an experiment without an id returned false, for a manager
\* with a registered experiment and a tracked id
C26_Witness ==
  /\ LastOp = "register"
  /\ trace[1].n = ""
  /\ trace[1].d = "false"
  /\ experiments.registry # <<>>
  /\ experiments.applied # <<>>

\* the entries of kind k the operation recorded in tr made for load h
EntriesOf(tr, k, h) == SelectSeq(tr, LAMBDA e : e.k = k /\ e.h = h)

\* C27: a plugin that reaches executeLoad without a url ends in status
\* 'ignore' with reason 'No URL provided': it is never 'requested', no
\* script is attached, its handle is resolved exactly once, and the timeout
\* alarm armed for it changes nothing when it fires.
C27_MissingUrl ==
  [][\A h \in Handles :
       /\ (/\ EntriesOf(trace', "timer", h) # <<>>
           /\ EntriesOf(trace', "timer", h)[1].v = "arm"
           /\ heap'[handles'[h].obj].url = "none")
            => /\ EntriesOf(trace', "status", h)
                    = <<E("status", heap'[handles'[h].obj].name, "ignore", h)>>
               /\ EntriesOf(trace', "attach", h) = <<>>
               /\ h \notin scripts'
               /\ EntriesOf(trace', "resolve", h)
                    = <<E("resolve", heap'[handles'[h].obj].name, "ignore", h)>>
               /\ handles'[h].state = "resolved"
               /\ handles'[h].status = "ignore"
               /\ handles'[h].reason = "No URL provided"
       /\ (/\ CallbackStep(h)
           /\ trace'[1].v = "timeout"
           /\ heap[handles[h].obj].url = "none")
            => /\ Len(trace') = 1
               /\ heap' = heap
               /\ handles' = handles
               /\ metrics' = metrics]_vars

\* C28: with a readyTopic configured, the configured plugins are passed to
\* load() once the topic has been published and init has run, in either
\* order of the two, and no plugin is passed to load() before the topic has
\* been published.
C28_ReadyTopicOrder ==
  /\ (\E h \in Handles : handles[h].state # "unused")
       => ArrIncludes(pubsub.publishedTopics, ReadyTopic)
  /\ (initDone /\ ArrIncludes(pubsub.publishedTopics, ReadyTopic))
       => \A i \in 1..Len(PluginOrder) :
            \E h \in Handles :
              /\ handles[h].state # "unused"
              /\ heap[handles[h].obj].name = PluginOrder[i]

\* init ran first and subscribed, another topic was published, and then the
\* readyTopic: the plugin was passed to load()
C28_Witness ==
  /\ initDone
  /\ pubsub.topics # <<>>
  /\ pubsub.publishedTopics = <<OtherTopic, ReadyTopic>>
  /\ LastOp = "load"
  /\ handles[1].state # "unused"
  /\ handles[2].state = "unused"

\* load h is the only load of its plugin's name so far
OnlyLoad(h) ==
  \A g \in Handles \ {h} :
    handles[g].state = "unused" \/ heap[handles[g].obj].name # heap[handles[h].obj].name

\* the status, hook and event of the three ways a load can end
RaceOutcome(v) ==
  CASE v = "onload" -> [status |-> "loaded", hook |-> "onload", event |-> "load"]
    [] v = "onerror" -> [status |-> "error", hook |-> "onerror", event |-> "error"]
    [] OTHER -> [status |-> "timeout", hook |-> "ontimeout", event |-> "timeout"]

Resumed(tr, h) ==
  IF EntriesOf(tr, "timer", h) # <<>>
    THEN Len(EntriesOf(tr, "timer", h))
    ELSE Len(SelectSeq(tr, LAMBDA e : e.k = "status" /\ e.v = "ignore" /\ e.h = h))

\* the number of entries of the consent queue q that belong to load h
QueuedTimes(q, h) == Cardinality({i \in 1..Len(q) : q[i].resolve = h})

\* C30: consent-queue conservation. No load is in the queue twice; a load in
\* the queue either stays there once, untouched, or leaves it in a call of
\* processConsentQueue that hands it to executeLoad or handleIgnore exactly
\* once; a load enters the queue only in its own load() call, so a load that
\* was resumed is never processed again.
C30_QueueConservation ==
  /\ [](\A h \in Handles : QueuedTimes(consentQueue, h) <= 1)
  /\ [][\A h \in Handles :
         /\ QueuedTimes(consentQueue, h) = 1
              => \/ /\ QueuedTimes(consentQueue', h) = 1
                    /\ Resumed(trace', h) = 0
                 \/ /\ QueuedTimes(consentQueue', h) = 0
                    /\ QueueStep
                    /\ Resumed(trace', h) = 1
         /\ (QueuedTimes(consentQueue, h) = 0 /\ QueuedTimes(consentQueue', h) > 0)
              => LoadStep(h)
         /\ (QueuedTimes(consentQueue, h) = 0 /\ QueueStep)
              => Resumed(trace', h) = 0]_vars

\* two loads wait in the queue and one call of processConsentQueue resumes both
C30_TwoResumed ==
  /\ LastOp = "processConsentQueue"
  /\ consentQueue = <<>>
  /\ \A h \in Handles : Resumed(trace, h) = 1

\* the reasons evaluateTargeting gives with matched: true
MatchedReasons == {"All targeting rules passed", "Included by special function"}

\* entry i of tr sets a plugin to 'ignore' although its targeting was not
\* what failed, and the host is not in its domains
DomainIgnored(tr, i) ==
  /\ tr[i].k = "status"
  /\ tr[i].v = "ignore"
  /\ tr[i].h # 0
  /\ ~matchesDomain(heap[handles[tr[i].h].obj].domains)
  /\ i > 1
  /\ tr[i - 1].k = "targeting" => tr[i - 1].v \in MatchedReasons

\* C31: a plugin ignored because the host is not in its domains gets the
\* reason 'Domain mismatch' in the onignore hook argument, in the payload of
\* the ignore event and in the resolved result, from load() and from
\* processConsentQueue() alike.
C31_DomainMismatchReason ==
  \A i \in 1..Len(trace) :
    DomainIgnored(trace, i)
      => /\ \A j \in (i + 1)..Len(trace) :
              (j <= i + 3 /\ ((trace[j].k = "hook" /\ trace[j].v = "onignore")
                              \/ (trace[j].k = "event" /\ trace[j].v = "ignore")))
                => trace[j].d = "Domain mismatch"
         /\ handles[trace[i].h].state = "resolved"
              => handles[trace[i].h].reason = "Domain mismatch"

\* the same for load() alone
C31_LoadDomainMismatch ==
  (trace # <<>> /\ trace[1].v = "load") => C31_DomainMismatchReason

\* a direct load() ignored for its domain has resolved with the reason
C31_Witness ==
  /\ trace # <<>>
  /\ trace[1].v = "load"
  /\ \E i \in 1..Len(trace) :
       /\ DomainIgnored(trace, i)
       /\ handles[trace[i].h].state = "resolved"
       /\ handles[trace[i].h].reason = "Domain mismatch"

\* the positions in tr of the entries that satisfy P
Where(tr, P(_)) == {i \in 1..Len(tr) : P(tr[i])}

\* the context whose section a targeting entry recorded
ContextOf(e) == CHOOSE c \in Contexts : ContextKey(c) = e.d

\* C32: within one load() the gates run in the order URL override, activity,
\* consent, domain, experiments, targeting, executeLoad: experiments are
\* applied only after the activity, consent and domain gates passed and
\* before targeting, and targeting is evaluated on the include/exclude the
\* experiments left on the descriptor, which decides between executeLoad and
\* ignore.
C32_GateOrder ==
  [][\A h \in Handles :
       LoadStep(h)
         => LET tr == trace'
                p == handles'[h].obj
                n == heap'[p].name
                wasActive == IF plugins[n] # 0 THEN heap[plugins[n]].active
                             ELSE pluginConfig[n].active
                Ov == Where(tr, LAMBDA e : e.k = "event"
                                  /\ e.v \in {"override.enabled", "override.disabled"})
                Inact == Where(tr, LAMBDA e : e.k = "status" /\ e.v = "inactive")
                Cons == Where(tr, LAMBDA e : e.k = "consent")
                Exp == Where(tr, LAMBDA e : e.k \in {"apply", "eligible"})
                Tg == Where(tr, LAMBDA e : e.k = "targeting")
                Run == Where(tr, LAMBDA e : e.k = "timer" /\ e.v = "arm")
                Ign == Where(tr, LAMBDA e : e.k = "status" /\ e.v = "ignore")
            IN /\ \A i \in Ov : \A j \in Inact \cup Cons \cup Exp \cup Tg \cup Run \cup Ign : i < j
               /\ Inact # {} => Cons \cup Exp \cup Tg \cup Run \cup Ign = {}
               /\ \A i \in Cons :
                    /\ \A j \in Exp \cup Tg \cup Run \cup Ign : i < j
                    /\ tr[i].v # "allow" => Exp \cup Tg \cup Run \cup Ign = {}
               /\ Exp \cup Tg \cup Run # {}
                    => /\ wasActive
                       /\ \A i \in Ov : tr[i].v = "override.enabled"
                       /\ checkConsent(State, heap'[p].consentState)
                       /\ matchesDomain(heap'[p].domains)
               /\ (Ign # {} /\ Tg = {})
                    => ~matchesDomain(heap'[p].domains) /\ Exp = {}
               /\ \A i \in Exp : \A j \in Tg \cup Run \cup Ign : i < j
               /\ Run # {} => Tg # {}
               /\ \A i \in Tg :
                    LET ctx == ContextOf(tr[i])
                        res == evaluateTargeting(normalizeTargetingConfig(heap'[p].include),
                                                 normalizeTargetingConfig(heap'[p].exclude),
                                                 ctx, LoaderDimensionConfig)
                        due == {k \in 1..Len(experiments.registry) :
                                  /\ experiments.active
                                  /\ experiments.registry[k].active
                                  /\ isMatch(experiments.registry[k], n)
                                  /\ targetingMatches(experiments.registry[k], ctx,
                                                      LoaderDimensionConfig)}
                    IN /\ Tg = {i}
                       /\ Cardinality(Exp) = Cardinality(due)
                       /\ tr[i].v = res.reason
                       /\ res.matched => Run = {i + 1}
                       /\ ~res.matched
                            => /\ Run = {}
                               /\ Ign = {i + 1}
                               /\ handles'[h].status = "ignore"
                               /\ handles'[h].reason = res.reason]_vars

\* the plugin is configured for the sport section and loaded on a sport
\* page; the experiment applied in that load moved it to the news section and
\* the load was ignored
C32_Witness ==
  /\ LastOp = "load"
  /\ \E i \in 1..Len(trace) : trace[i].k = "apply"
  /\ \E i \in 1..Len(trace) : trace[i].k = "targeting" /\ trace[i].d = Join(Sport)
  /\ \A n \in Names : pluginConfig[n].include = SectionSport
  /\ \E h \in Handles :
       /\ handles[h].state = "resolved"
       /\ handles[h].status = "ignore"
       /\ handles[h].reason # "Domain mismatch"
       /\ heap[handles[h].obj].include.rules["section"] = <<News>>

\* the operation recorded in tr applied an experiment whose apply function
\* sets active = false on the descriptor
HoldoutApplied(tr) ==
  \E i \in 1..Len(tr), k \in 1..Len(experiments.registry) :
    /\ tr[i].k = "apply"
    /\ tr[i].d = ""
    /\ experiments.registry[k].id = tr[i].v
    /\ experiments.registry[k].apply = "deactivate"

\* C33: a load() in which an applied experiment set the descriptor's active
\* flag to false does not move the plugin to 'requested' and does not attach
\* its script.
C33_HoldoutStopsLoad ==
  [][\A h \in Handles :
       (LoadStep(h) /\ HoldoutApplied(trace'))
         => /\ heap'[handles'[h].obj].active = FALSE
            /\ \A i \in 1..Len(trace') :
                 /\ ~(trace'[i].k = "status" /\ trace'[i].v = "requested")
                 /\ trace'[i].k # "attach"]_vars

\* C34: between operations the performance.status of every descriptor equals
\* its status, from its creation by load() or register() on.
C34_StatusMirrored ==
  \A p \in 1..Len(heap) : heap[p].perfStatus = heap[p].status

\* the same for descriptors made from configurations without a status
C34_MirroredFromInit ==
  (\A n \in Names : pluginConfig[n].status = "none") => C34_StatusMirrored

\* a descriptor without a configured status has gone through a transition
C34_Transitioned ==
  /\ \A n \in Names : pluginConfig[n].status = "none"
  /\ \E p \in 1..Len(heap) : heap[p].status \in {"loaded", "error", "timeout"}

\* the names of the plugins the step is a step of: the plugin of the load()
\* call or of the callback, and for processConsentQueue() the plugins of the
\* queued loads it releases
StepOf ==
  IF trace' = <<>> \/ consent' # consent THEN {}
  ELSE IF trace'[1].v = "processConsentQueue"
    THEN {heap[consentQueue[i].plugin].name :
            i \in {j \in 1..Len(consentQueue) :
                     checkConsent(State, heap[consentQueue[j].plugin].consentState)}}
    ELSE {trace'[1].n}

\* a step of a load of plugin p leaves the descriptor, the status and the
\* metrics entry of every plugin with another name unchanged
C35_Frame ==
  [][/\ \A i \in 1..Len(heap) : heap[i].name \notin StepOf => heap'[i] = heap[i]
     /\ \A i \in (Len(heap) + 1)..Len(heap') : heap'[i].name \in StepOf
     /\ \A n \in DOMAIN plugins :
          n \notin StepOf => plugins'[n] = plugins[n] /\ metrics'[n] = metrics[n]]_vars

\* a call of processConsentQueue() resumes every load it releases, unless a
\* hook of that load's own plugin threw
C35_ReleaseIndependent ==
  [][QueueStep
       => \A i \in 1..Len(consentQueue) :
            LET n == heap[consentQueue[i].plugin].name
            IN n \in StepOf
                 => \/ Resumed(trace', consentQueue[i].resolve) = 1
                    \/ \E j \in 1..Len(trace') : trace'[j].k = "throw" /\ trace'[j].n = n]_vars

\* C35: a step of a load of plugin p (load(), processConsentQueue() releasing
\* p, p's executor callback, p's timeout alarm) leaves the descriptor, the
\* status and the metrics entry of every plugin with another name unchanged,
\* and what becomes of p's load does not depend on the loads of the other
\* plugins.
C35_NoCrossPluginInterference == C35_Frame /\ C35_ReleaseIndependent

\* the loads of both plugins are in flight and the script of one has just
\* loaded while the other is still 'requested'
C35_BothInFlight ==
  /\ LastOp = "onload"
  /\ \E n \in DOMAIN plugins :
       /\ n # trace[1].n
       /\ plugins[n] # 0
       /\ heap[plugins[n]].status = "requested"
       /\ metrics[n] = "none"
       /\ metrics[trace[1].n] = "loaded"

\* C36: within one load() call the gates run to completion with no step of
\* another load() call between them: when a subscriber of override.enabled,
\* override.disabled or consent.pending calls load(), the outer load has
\* nothing left to do after the subscriber returns.
C36_GateAtomicity ==
  \A i \in 1..Len(trace) :
    (trace[i].k = "subscriber" /\ trace[i].v = "return") => i = Len(trace)

\* the same for the subscribers of consent.pending alone
C36_ConsentPendingAtomic ==
  \A i \in 1..Len(trace) :
    (trace[i].k = "subscriber" /\ trace[i].v = "return" /\ i > 1
       /\ \E j \in 1..i : trace[j].k = "event" /\ trace[j].v = "consent.pending"
                          /\ trace[j + 1].k = "subscriber")
      => i = Len(trace)

\* a subscriber of consent.pending has called load() inside load()
C36_Reentered ==
  \E j \in 1..Len(trace) :
    /\ trace[j].k = "event" /\ trace[j].v = "consent.pending"
    /\ j + 2 <= Len(trace)
    /\ trace[j + 1].k = "subscriber"
    /\ trace[j + 2].k = "call" /\ trace[j + 2].v = "load"

\* the rule set with a special predicate that returns false in the place of
\* one that throws
Quiet(ruleset) == [ruleset EXCEPT !.special = IF @ = "throws" THEN "false" ELSE @]

\* C37: a special predicate that throws counts as one that returned false: a
\* throwing exclude.special does not exclude, a throwing include.special does
\* not include, and evaluateTargeting returns the {matched, reason} the
\* remaining rules give.
C37_ThrowingSpecialIsFalse ==
  (call.fn = "evaluateTargeting"
     /\ (call.include.special = "throws" \/ call.exclude.special = "throws"))
    => /\ call.exclude.special = "throws" => call.reason # "Excluded by special function"
       /\ call.include.special = "throws" => call.reason # "Included by special function"
       /\ call.matched = evaluateTargeting(Quiet(call.include), Quiet(call.exclude),
                                           call.context, LoaderDimensionConfig).matched
       /\ call.reason = evaluateTargeting(Quiet(call.include), Quiet(call.exclude),
                                          call.context, LoaderDimensionConfig).reason
       /\ (call.exclude.special = "throws" /\ call.include.special = "true")
            => call.matched /\ call.reason = "Included by special function"

\* both predicates threw and a dimension rule decided
C37_Witness ==
  /\ call.fn = "evaluateTargeting"
  /\ call.include.special = "throws"
  /\ call.exclude.special = "throws"
  /\ ~call.matched
  /\ call.reason = "Not included by section: " \o Join(News)

\* the entries of the last operation that record its call of getContext
ContextCall == SelectSeq(trace, LAMBDA e : e.k = "context")

\* C38: getContext() returns one entry for every registered dimension on
\* every call; a getter that throws gives undefined for its dimension in that
\* call only, the other dimensions get what their getters returned, and the
\* load that asked goes on to targeting and is resolved or has its alarm armed.
C38_ContextComplete ==
  /\ []((\E j \in 1..Len(trace) : trace[j].k = "targeting")
          => /\ Len(ContextCall) = Len(Dimensions)
             /\ \A i \in 1..Len(ContextCall) :
                  /\ ContextCall[i].n = Dimensions[i]
                  /\ ContextCall[i].v = Join(Threw) => ContextCall[i].d = Join(Undefined)
                  /\ ContextCall[i].v # Join(Threw) => ContextCall[i].d = ContextCall[i].v
             /\ \A j \in 1..Len(trace) :
                  trace[j].k = "targeting" => trace[j].d = ContextCall[1].d)
  /\ [][\A h \in Handles :
         LoadStep(h)
           => /\ handles'[h].state # "rejected"
              /\ handles'[h].state = "resolved" \/ h \in timers'
              /\ (LET n == heap'[handles'[h].obj].name
                  IN IF plugins[n] # 0 THEN heap[plugins[n]].active
                     ELSE pluginConfig[n].active)
                   => \E i \in 1..Len(trace') : trace'[i].k = "targeting"]_vars

\* the getter of 'section' threw, 'geo' was evaluated all the same, and the
\* load was ignored for its section
C38_Witness ==
  /\ LastOp = "load"
  /\ Len(ContextCall) = 2
  /\ ContextCall[1].v = Join(Threw)
  /\ ContextCall[2].d = Join(News)
  /\ \E h \in Handles : /\ handles[h].state = "resolved"
                          /\ handles[h].status = "ignore"
                          /\ handles[h].reason = "Not included by section: undefined"

\* the keys of a context
KeysOf(context) == {context[i].k : i \in 1..Len(context)}

\* the rule set without the lists of the dimensions that are no key of context
OnKeys(ruleset, context) ==
  [ruleset EXCEPT !.rules = [d \in DOMAIN @ |-> IF d \in KeysOf(context) THEN @[d] ELSE <<>>]]

\* C39: evaluateTargeting consults the rule lists only of the dimensions that
\* are keys of the context: the lists of other dimensions change nothing, and
\* a call whose only rule is an include rule for a dimension absent from the
\* context is matched.
C39_AbsentDimensionNeverBlocks ==
  call.fn = "evaluateTargeting"
    => /\ call.matched = evaluateTargeting(OnKeys(call.include, call.context),
                                           OnKeys(call.exclude, call.context),
                                           call.context, LoaderDimensionConfig).matched
       /\ call.reason = evaluateTargeting(OnKeys(call.include, call.context),
                                          OnKeys(call.exclude, call.context),
                                          call.context, LoaderDimensionConfig).reason
       /\ (/\ call.exclude.special # "true"
           /\ \A d \in KeysOf(call.context) :
                Len(call.include.rules[d]) = 0 /\ Len(call.exclude.rules[d]) = 0)
            => call.matched

\* the only rule is an include rule for 'geo', the context has 'section' only
C39_Witness ==
  /\ call.fn = "evaluateTargeting"
  /\ call.context = <<CtxEntry("section", Sport)>>
  /\ call.include = [special |-> "absent", rules |-> [d \in RuleDims |->
                                                        IF d = "geo" THEN <<Gb>> ELSE <<>>]]
  /\ call.exclude = NoRules
  /\ call.matched
  /\ call.reason = "All targeting rules passed"

\* C40: with the registry and the testgroup fixed, no experiment id is in
\* both 'applied' and 'eligible', whatever apply calls were made.
C40_AppliedEligibleDisjoint ==
  \A i \in 1..Len(experiments.applied), j \in 1..Len(experiments.eligible) :
    experiments.applied[i] # experiments.eligible[j]

\* two apply calls were made: one applied an experiment, the other found
\* another experiment eligible
C40_Witness ==
  /\ Len(experiments.applied) >= 1
  /\ Len(experiments.eligible) >= 1
  /\ LastOp = "apply"

====
